---- MODULE Spec2Model ----
(***************************************************************************)
(* Model of the multi-provider fallback layer of redoc (src/src/ai):       *)
(* the provider adapters' availability checks, getAvailability,            *)
(* chooseProviderOrder and tryProviders of src/src/ai/fallback.ts.         *)
(*                                                                         *)
(* One tryProviders call is a small asynchronous process: it starts every  *)
(* adapter's availability probe, joins them (Promise.all), computes the    *)
(* provider order and then awaits params.run(provider) for one provider    *)
(* after the other.  The values an operation resolves with, the errors it  *)
(* rejects with and the outcome of each probe are inputs of the            *)
(* environment.                                                            *)
(*                                                                         *)
(* On top of it stand the use cases generateQuestions and planDocument of  *)
(* src/src/ai/orchestrator.ts: each calls tryProviders once and turns what *)
(* it returns (a parsed JSON answer, or nothing) into its result, with an  *)
(* offline fallback.  SpecShipped follows the four shipped adapters over   *)
(* consecutive calls, SpecUseCase a use case through its whole call, and   *)
(* SpecReturn the last step of a use case over every answer enumerated.    *)
(***************************************************************************)
EXTENDS Integers, Sequences, FiniteSets, TLC

(* ---- bounds ---- *)
MaxOrderLen == 2        \* longest generation.providerOrder that is enumerated
MaxCalls == 2           \* consecutive tryProviders calls that are followed
MaxQuestions == 5       \* longest questions array of a provider answer

(* ---- identities (src/src/ai/types.ts:3, src/src/ai/fallback.ts:8-13) ---- *)
ALL_PROVIDERS == <<"groq", "gemini", "cerebras", "ollama">>

Registered == {ALL_PROVIDERS[i] : i \in DOMAIN ALL_PROVIDERS}

ProviderId == Registered \cup {"offline"}

\* JavaScript's undefined (an absent optional field or parameter)
Undefined == "undefined"

\* what params.run(provider) resolves with when it succeeds, and the error it
\* rejects with when it fails: one token per adapter, so that a result tells
\* which adapter's operation produced it
ValueOf(p) ==
  CASE p = "groq" -> "value of groq"
    [] p = "gemini" -> "value of gemini"
    [] p = "cerebras" -> "value of cerebras"
    [] p = "ollama" -> "value of ollama"

ErrorOf(p) ==
  CASE p = "groq" -> "error of groq"
    [] p = "gemini" -> "error of gemini"
    [] p = "cerebras" -> "error of cerebras"
    [] p = "ollama" -> "error of ollama"

\* e.message of the errors a probe fails with: the errors enumerated carry a
\* message ("" stands for an error without one, which gets the default reason)
Messages == {"boom"}

(* ---- state ---- *)

VARIABLES
  config,        \* the credentials / URL / model of the RedocConfig (read-only)
  preferred,     \* params.preferred of the current call, or Undefined
  pc,            \* where the current tryProviders call stands
  probes,        \* per adapter: the state of its isAvailable(...).catch(...) promise
  availability,  \* const availability of chooseProviderOrder
  userOrder,     \* const userOrder of chooseProviderOrder
  order,         \* const order of tryProviders
  idx,           \* position of the for..of loop in order (1-based)
  lastError,     \* let lastError
  attempts,      \* history: the calls of params.run so far, with their outcome
  result,        \* what the call returned
  netlog,        \* history: the network requests made during the current call
  calls,         \* history: how many tryProviders calls were started
  prevOrder,     \* history: the provider order of the previous call
  params,        \* the use case that runs (generateQuestions / planDocument) and its params
  reply,         \* the JSON the successful chatJson call parsed
  returned,      \* what the use case returned
  messages,      \* const messages of the use case: what it interpolates into its prompt
  response,      \* the text an adapter's chatJson received from its backend
  gen            \* the generation step of a command: its three sub-tasks and the document

\* the state of the use case that called tryProviders
useCaseVars == <<params, reply, returned, messages, response, gen>>

vars == <<config, preferred, pc, probes, availability, userOrder, order, idx,
          lastError, attempts, result, netlog, calls, prevOrder, params, reply,
          returned, messages, response, gen>>

(* ---- the adapters (src/src/ai/providers/*.ts) ---- *)

\* isConfigured of the four adapters
isConfigured(p, cfg) ==
  CASE p = "groq" -> cfg.groqApiKey
    [] p = "gemini" -> cfg.geminiApiKey
    [] p = "cerebras" -> cfg.cerebrasApiKey
    [] p = "ollama" -> cfg.ollamaUrl /\ cfg.ollamaModel

MissingReason(p) ==
  CASE p = "groq" -> "Missing groqApiKey"
    [] p = "gemini" -> "Missing geminiApiKey"
    [] p = "cerebras" -> "Missing cerebrasApiKey"
    [] p = "ollama" -> "Missing ollamaUrl/ollamaModel"

\* an availability check that requests /api/tags before it looks at the config
DoesFetchUnguarded(p, cfg) == p = "ollama"

\* whether isAvailable(config) of adapter p sends a request: only ollama, and
\* only past its isConfigured guard (ollama.ts:13-19); groq, gemini and
\* cerebras return without one (groq.ts:12-16)
DoesFetch(p, cfg) == p = "ollama" /\ isConfigured(p, cfg)

\* what the connectivity check of a configured adapter can observe.
\* groq, gemini and cerebras make no request; ollama GETs /api/tags and sees
\* res.ok, a non-ok status, or fetch throwing an error (with its message).
FetchOutcomes(p) ==
  IF p = "ollama"
    THEN {[kind |-> "ok", message |-> ""], [kind |-> "status", message |-> ""]}
         \cup {[kind |-> "throws", message |-> m] : m \in Messages}
    ELSE {[kind |-> "none", message |-> ""]}

\* an ollama check that reports a configured backend without looking at the
\* response
isAvailableOptimistic(p, cfg, net) ==
  IF ~isConfigured(p, cfg)
    THEN [id |-> p, configured |-> FALSE, available |-> FALSE, reason |-> MissingReason(p)]
    ELSE [id |-> p, configured |-> TRUE, available |-> TRUE, reason |-> Undefined]

\* the record isAvailable resolves with
isAvailable(p, cfg, net) ==
  IF ~isConfigured(p, cfg)
    THEN [id |-> p, configured |-> FALSE, available |-> FALSE, reason |-> MissingReason(p)]
  ELSE IF p # "ollama"
    THEN [id |-> p, configured |-> TRUE, available |-> TRUE, reason |-> Undefined]
  ELSE IF net.kind = "status"
    THEN [id |-> p, configured |-> TRUE, available |-> FALSE, reason |-> "Ollama not reachable (status)"]
  ELSE IF net.kind = "throws"
    THEN [id |-> p, configured |-> TRUE, available |-> FALSE,
          reason |-> IF net.message # "" THEN net.message ELSE "Ollama not reachable"]
  ELSE [id |-> p, configured |-> TRUE, available |-> TRUE, reason |-> Undefined]

(* ---- getAvailability (src/src/ai/fallback.ts:15-25) ---- *)

\* the .catch handler attached to each probe: the record that replaces a
\* rejected isAvailable promise
CatchProbe(p, cfg, message) ==
  [id |-> p, configured |-> isConfigured(p, cfg), available |-> FALSE,
   reason |-> IF message # "" THEN message ELSE "Unavailable"]

\* a join that keeps only the probes that fulfilled (Promise.allSettled and a
\* filter, instead of a .catch per probe)
PromiseAllFulfilledOnly(settled) ==
  LET all == [i \in DOMAIN ALL_PROVIDERS |-> settled[ALL_PROVIDERS[i]]]
      kept == SelectSeq(all, LAMBDA s : s.outcome = "fulfilled")
  IN [i \in DOMAIN kept |-> kept[i].record]

\* Promise.all: the settled values, positionally, in the order of ALL_PROVIDERS
PromiseAll(settled) ==
  [i \in DOMAIN ALL_PROVIDERS |-> settled[ALL_PROVIDERS[i]].record]

(* ---- chooseProviderOrder (src/src/ai/fallback.ts:27-66) ---- *)

\* new Map(availability.map(a => [a.id, a])).get(id): the last record with
\* that id; has(id) is FALSE when there is none
byIdHas(avail, id) == \E i \in DOMAIN avail : avail[i].id = id

byIdGet(avail, id) ==
  LET last == CHOOSE i \in DOMAIN avail :
                /\ avail[i].id = id
                /\ \A j \in DOMAIN avail : avail[j].id = id => j <= i
  IN avail[last]

\* pushIf without the ordered.some(...) check
pushIfNoDedup(ordered, id, avail) ==
  IF id = "offline" THEN ordered
  ELSE IF id \notin Registered THEN ordered
  ELSE IF byIdHas(avail, id) /\ byIdGet(avail, id).available
    THEN Append(ordered, id)
  ELSE ordered

\* pushIf that trusts the configuration and not the probe (info.configured)
pushIfConfigured(ordered, id, avail) ==
  IF id = "offline" THEN ordered
  ELSE IF id \notin Registered THEN ordered
  ELSE IF \E i \in DOMAIN ordered : ordered[i] = id THEN ordered
  ELSE IF byIdHas(avail, id) /\ byIdGet(avail, id).configured
    THEN Append(ordered, id)
  ELSE ordered

\* the closure pushIf, with the list it appends to made explicit
pushIf(ordered, id, avail) ==
  IF id = "offline" THEN ordered
  ELSE IF id \notin Registered THEN ordered
  ELSE IF \E i \in DOMAIN ordered : ordered[i] = id THEN ordered
  ELSE IF byIdHas(avail, id) /\ byIdGet(avail, id).available
    THEN Append(ordered, id)
  ELSE ordered

\* for (const id of userOrder) pushIf(id)
RECURSIVE pushEach(_, _, _)
pushEach(ordered, ids, avail) ==
  IF ids = <<>> THEN ordered
  ELSE pushEach(pushIf(ordered, Head(ids), avail), Tail(ids), avail)

\* for (const a of availability) { if (a.available) pushIf(a.id) }
RECURSIVE pushAvailable(_, _, _)
pushAvailable(ordered, rest, avail) ==
  IF rest = <<>> THEN ordered
  ELSE pushAvailable(IF Head(rest).available
                       THEN pushIf(ordered, Head(rest).id, avail)
                       ELSE ordered,
                     Tail(rest), avail)

\* a default chain without pushIf('ollama')
chooseProviderOrderNoLocal(providerOrder, pref, avail) ==
  LET first == IF pref # Undefined THEN pushIf(<<>>, pref, avail) ELSE <<>>
  IN IF Len(providerOrder) > 0
       THEN pushEach(first, providerOrder, avail)
       ELSE pushAvailable(first, avail, avail)

\* a user-defined order that is completed with every other available backend
chooseProviderOrderThenAny(providerOrder, pref, avail) ==
  LET first == IF pref # Undefined THEN pushIf(<<>>, pref, avail) ELSE <<>>
  IN IF Len(providerOrder) > 0
       THEN pushAvailable(pushEach(first, providerOrder, avail), avail, avail)
       ELSE pushAvailable(pushIf(first, "ollama", avail), avail, avail)

\* a user-defined order that is pushed before the preferred provider
chooseProviderOrderUserFirst(providerOrder, pref, avail) ==
  LET last(ordered) == IF pref # Undefined THEN pushIf(ordered, pref, avail) ELSE ordered
      first == IF pref # Undefined THEN pushIf(<<>>, pref, avail) ELSE <<>>
  IN IF Len(providerOrder) > 0
       THEN last(pushEach(<<>>, providerOrder, avail))
       ELSE pushAvailable(pushIf(first, "ollama", avail), avail, avail)

\* providerOrder is params.config.generation?.providerOrder
chooseProviderOrder(providerOrder, pref, avail) ==
  LET first == IF pref # Undefined THEN pushIf(<<>>, pref, avail) ELSE <<>>
  IN IF Len(providerOrder) > 0
       THEN pushEach(first, providerOrder, avail)
       ELSE pushAvailable(pushIf(first, "ollama", avail), avail, avail)

(* ---- tryProviders (src/src/ai/fallback.ts:68-87) ---- *)

\* a catch that keeps the first error
CatchRunKeepFirst(lastErr, e) == IF lastErr = Undefined THEN e ELSE lastErr

\* catch (e) { lastError = e; continue; }
CatchRun(lastErr, e) == e

\* a return that reports the provider that was asked for
ReturnValuePreferred(value, provider) ==
  [value |-> value, provider |-> preferred, error |-> Undefined]

\* return { value, provider: provider.id }
ReturnValue(value, provider) ==
  [value |-> value, provider |-> provider, error |-> Undefined]

\* return { error: lastError }
ReturnError(lastErr) ==
  [value |-> Undefined, provider |-> Undefined, error |-> lastErr]

(* ---- chat requests of the adapters ---- *)

\* the request params.run(provider) = provider.chatJson(...) sends: every
\* adapter throws before its request when its credential is missing
\* (groq.ts:19, cerebras.ts:28, ollama.ts:32-34), and sends one otherwise
ChatRequest(p, cfg) ==
  IF isConfigured(p, cfg) THEN {[kind |-> "chat", to |-> p]} ELSE {}

(* ---- strings (src/src/ai/orchestrator.ts:79-83) ---- *)

\* A string is a sequence of characters. " " and "\n" are the whitespace
\* characters, "1" stands for a digit, "." for one of ) . : - and every other
\* token for a run of ordinary characters.
Whitespace == {" ", "\n"}

RECURSIVE LeadingSpace(_)
LeadingSpace(s) ==
  IF s # <<>> /\ Head(s) \in Whitespace THEN 1 + LeadingSpace(Tail(s)) ELSE 0

RECURSIVE LeadingRun(_, _)
LeadingRun(s, c) ==
  IF s # <<>> /\ Head(s) = c THEN 1 + LeadingRun(Tail(s), c) ELSE 0

Drop(s, n) == SubSeq(s, n + 1, Len(s))

trimStart(s) == Drop(s, LeadingSpace(s))

RECURSIVE trimEnd(_)
trimEnd(s) ==
  IF s # <<>> /\ s[Len(s)] \in Whitespace THEN trimEnd(SubSeq(s, 1, Len(s) - 1)) ELSE s

\* String.prototype.trim
trim(s) == trimEnd(trimStart(s))

\* an entry of the questions array that is null or undefined
Nullish == <<"null">>

\* String(q ?? '')
StringOf(q) == IF q = Nullish THEN <<>> ELSE q

\* q.replace(/^\d+\s*[\).:-]\s*/, ''): digits, optional whitespace, one
\* punctuation character and the whitespace after it are removed from the start
replaceNumbering(q) ==
  LET afterDigits == Drop(q, LeadingRun(q, "1"))
      afterSpace == trimStart(afterDigits)
  IN IF LeadingRun(q, "1") > 0 /\ afterSpace # <<>> /\ Head(afterSpace) = "."
       THEN trimStart(Tail(afterSpace))
       ELSE q

\* .map(q => String(q ?? '').trim())
mapTrim(questions) == [i \in DOMAIN questions |-> trim(StringOf(questions[i]))]

\* .map(q => q.replace(/^\d+\s*[\).:-]\s*/, ''))
mapReplace(questions) == [i \in DOMAIN questions |-> replaceNumbering(questions[i])]

\* .filter(Boolean): the empty string is the only falsy string
filterBoolean(s) == SelectSeq(s, LAMBDA q : q # <<>>)

\* Array.prototype.slice(from, to), 0-based, to exclusive
slice(s, from, to) ==
  SubSeq(s, from + 1, IF to < Len(s) THEN to ELSE Len(s))

(* ---- generateQuestions (src/src/ai/orchestrator.ts:23-118) ---- *)

MinQuestions == 2         \* fewer questions than this are not used
MaxQuestionsKept == 4     \* .slice(0, 4)
SmallDiffLimit == 80      \* changed lines from which a diff is no longer small
SmallCount == 3           \* count of a small diff
LargeCount == 4           \* count of any other diff

\* const lang = params.config.language || 'en'
langOf(language) == IF language = Undefined THEN "en" ELSE language

\* A diff is given by its lines: how many start with '+', how many with '-'
\* and how many with anything else. The lines the filter keeps:
changedLines(diff) == diff.plus + diff.minus

\* the bank of one language: four questions, each a non-empty string
bank(lang) ==
  << <<lang, "trigger">>, <<lang, "approaches">>, <<lang, "trickiest">>, <<lang, "improve">> >>

\* the offline questions as an earlier revision of the file chose them
offlineQuestionsTwoThree(diff, lang) ==
  slice(bank(lang), 0, IF changedLines(diff) < SmallDiffLimit THEN 2 ELSE 3)

offlineQuestions(diff, lang) ==
  LET isSmall == changedLines(diff) < SmallDiffLimit
      count == IF isSmall THEN SmallCount ELSE LargeCount
  IN slice(bank(lang), 0, count)

\* a normalisation without the cap
normalizedUncapped(questions) ==
  mapReplace(filterBoolean(mapTrim(questions)))

\* const normalized = result.value.questions.map(...).filter(Boolean).map(...).slice(0, 4)
normalized(questions) ==
  slice(mapReplace(filterBoolean(mapTrim(questions))),
        0, MaxQuestionsKept)

\* the use case threw: the promise it returned rejects
Thrown == [provider |-> "throws"]

\* result.provider ?? 'offline'
providerOf(res) == IF res.provider = Undefined THEN "offline" ELSE res.provider

\* a generateQuestions that tags every result as offline
generateQuestionsUntagged(res, value, language, diff) ==
  LET lang == langOf(language)
      offline == [questions |-> offlineQuestions(diff, lang), provider |-> "offline"]
  IN IF res.value = Undefined \/ value.json # "object" THEN offline
     ELSE IF ~value.hasQuestions THEN offline
     ELSE IF value.kind # "other" /\ Len(value.questions) < MinQuestions THEN offline
     ELSE IF value.kind # "array" THEN Thrown
     ELSE IF Len(normalized(value.questions)) < MinQuestions THEN offline
     ELSE [questions |-> normalized(value.questions), provider |-> "offline"]

\* what generateQuestions returns once tryProviders has returned res, whose
\* value (if any) is the parsed JSON value (orchestrator.ts:75-89). A questions
\* value that is a string has a length but no map, and any other value that
\* is no array (a number, a plain object) has neither: its length is
\* undefined, undefined < 2 is false, and .map throws a TypeError.
generateQuestions(res, value, language, diff) ==
  LET lang == langOf(language)
      offline == [questions |-> offlineQuestions(diff, lang), provider |-> "offline"]
  IN IF res.value = Undefined \/ value.json # "object" THEN offline
     ELSE IF ~value.hasQuestions THEN offline
     ELSE IF value.kind # "other" /\ Len(value.questions) < MinQuestions THEN offline
     ELSE IF value.kind # "array" THEN Thrown
     ELSE IF Len(normalized(value.questions)) < MinQuestions THEN offline
     ELSE [questions |-> normalized(value.questions), provider |-> providerOf(res)]

(* ---- planDocument (src/src/ai/orchestrator.ts:120-272) ---- *)

\* A JavaScript value of a plan field is written as a token: "undefined" for
\* an absent field, "null", "true", "false", "[]" and "[x]" for arrays, and
\* any other token for a non-empty string.
Falsy(v) == v \in {Undefined, "null", "false", ""}

isArray(v) == v \in {"[]", "[x]"}

\* an offline plan that asks for what the developer did not supply
offlinePlanFromFlags(hasDiagram, hasTable) ==
  [intent |-> "unknown", intentRationale |-> "Analysis unavailable offline",
   impactedFiles |-> "[]",
   shouldGenerateDiagram |-> IF hasDiagram THEN "false" ELSE "true",
   shouldGenerateTable |-> IF hasTable THEN "false" ELSE "true", keyInsights |-> "[]",
   complexity |-> "minimal", skipGeneration |-> "false", sections |-> Undefined]

\* function offlinePlan(hasDiagram, hasTable) (orchestrator.ts:254-272); the
\* type DocumentPlan has no field sections (src/src/ai/types.ts:52-73)
offlinePlan(hasDiagram, hasTable) ==
  [intent |-> "unknown", intentRationale |-> "Analysis unavailable offline",
   impactedFiles |-> "[]", shouldGenerateDiagram |-> "false",
   shouldGenerateTable |-> "false", keyInsights |-> "[]",
   complexity |-> "minimal", skipGeneration |-> "false", sections |-> Undefined]

\* an override that is left out
overrideNever(flag, has) == flag

\* if (params.hasDeveloperDiagrams) plan.shouldGenerateDiagram = false
\* (orchestrator.ts:238-239)
override(flag, has) == IF has THEN "false" ELSE flag

\* a default that is never applied
defaultKeep(v, d) == v

\* if (plan.x === undefined) plan.x = d (orchestrator.ts:246-248)
defaultIfUndefined(v, d) == IF v = Undefined THEN d ELSE v

\* if (!plan.x) plan.x = d (orchestrator.ts:242-243, 245)
defaultIfFalsy(v, d) == IF Falsy(v) THEN d ELSE v

\* if (!Array.isArray(plan.x)) plan.x = [] (orchestrator.ts:244, 249)
defaultIfNoArray(v) == IF isArray(v) THEN v ELSE "[]"

\* what planDocument returns once tryProviders has returned res, whose value
\* (if any) is the parsed JSON value (orchestrator.ts:229-251)
planDocument(res, value, hasDeveloperDiagrams, hasDeveloperTables) ==
  IF res.value = Undefined \/ value.json # "object"
    THEN [plan |-> offlinePlan(hasDeveloperDiagrams, hasDeveloperTables),
          provider |-> "offline"]
    ELSE LET raw == value.plan
         IN [plan |->
               [intent |-> defaultIfFalsy(raw.intent, "unknown"),
                intentRationale |-> defaultIfFalsy(raw.intentRationale, ""),
                impactedFiles |-> defaultIfNoArray(raw.impactedFiles),
                shouldGenerateDiagram |->
                  defaultIfUndefined(override(raw.shouldGenerateDiagram, hasDeveloperDiagrams), "false"),
                shouldGenerateTable |->
                  defaultIfUndefined(override(raw.shouldGenerateTable, hasDeveloperTables), "false"),
                keyInsights |-> defaultIfNoArray(raw.keyInsights),
                complexity |-> defaultIfFalsy(raw.complexity, "standard"),
                skipGeneration |-> defaultIfUndefined(raw.skipGeneration, "false"),
                sections |-> raw.sections],
             provider |-> providerOf(res)]

(* ---- generateMainContent, generateDiagram, generateTable ---- *)

\* A text is a string whose tokens are MermaidFence (three backticks and the
\* word mermaid: the opening fence of a Mermaid block), Fence (three
\* backticks), "|", the whitespace characters and "x" for a run of ordinary
\* characters. A plan field that holds a number
\* is written "5".
MermaidFence == "[fence]mermaid"
Fence == "[fence]"

\* typeof v === 'string' for the token v of a plan field: only a string has
\* toUpperCase
IsString(v) == v \notin {Undefined, "null", "true", "false", "5", "[]", "[x]", ""}

\* the fields of a DocumentPlan that the three generators read
NoPlan ==
  [intent |-> "unknown", shouldGenerateDiagram |-> "false", diagramType |-> Undefined,
   shouldGenerateTable |-> "false", tableType |-> Undefined]

\* the Markdown of the offline notes (orchestrator.ts:346-353)
OfflineMarkdown == <<"## Summary", "\n", "_Offline mode._", "\n", "## Notes">>

\* building the prompt of generateMainContent calls plan.intent.toUpperCase()
\* (orchestrator.ts:300)
contentPromptThrows(plan) == ~IsString(plan.intent)

\* what generateMainContent returns once tryProviders has returned res, whose
\* value (if any) is the text value.text (orchestrator.ts:346-355)
generateMainContent(res, value) ==
  IF res.value = Undefined \/ value.text = <<>>
  THEN [markdown |-> OfflineMarkdown, provider |-> "offline"]
  ELSE [markdown |-> trim(value.text), provider |-> providerOf(res)]

\* { mermaid: null, provider: 'offline' } (orchestrator.ts:366, 419)
NullDiagram == [mermaid |-> Nullish, provider |-> "offline"]

\* an early return that looks at the flag alone
diagramSkippedOnFlag(plan) == Falsy(plan.shouldGenerateDiagram)

\* the early return of generateDiagram (orchestrator.ts:365-367)
diagramSkipped(plan) == Falsy(plan.shouldGenerateDiagram) \/ Falsy(plan.diagramType)

\* building the prompt of generateDiagram calls plan.diagramType.toUpperCase()
\* (orchestrator.ts:375)
diagramPromptThrows(plan) == ~IsString(plan.diagramType)

\* text.indexOf('```mermaid'), counted from 1, 0 when there is none
indexOfMermaid(text) ==
  IF \E i \in 1..Len(text) : text[i] = MermaidFence
  THEN CHOOSE i \in 1..Len(text) :
         text[i] = MermaidFence /\ \A j \in 1..(i - 1) : text[j] # MermaidFence
  ELSE 0

\* text.lastIndexOf('```'), counted from 1, 0 when there is none: the opening
\* fence of a Mermaid block begins with three backticks too
lastIndexOfFence(text) ==
  IF \E i \in 1..Len(text) : text[i] \in {Fence, MermaidFence}
  THEN CHOOSE i \in 1..Len(text) :
         /\ text[i] \in {Fence, MermaidFence}
         /\ \A j \in (i + 1)..Len(text) : text[j] \notin {Fence, MermaidFence}
  ELSE 0

\* text.slice(start, end + 3): from the opening fence to the three backticks
\* found last
sliceFenced(text, start, end) == SubSeq(text, start, end - 1) \o <<Fence>>

\* `\`\`\`mermaid\n${text}\n\`\`\``
fenceIt(text) == <<MermaidFence, "\n">> \o text \o <<"\n", Fence>>

\* what generateDiagram returns once tryProviders has returned res
\* (orchestrator.ts:419-429)
generateDiagram(res, value) ==
  IF res.value = Undefined \/ value.text = <<>> THEN NullDiagram
  ELSE LET text == trim(value.text)
           start == indexOfMermaid(text)
           end == lastIndexOfFence(text)
       IN  IF start # 0 /\ end # 0 /\ end > start
           THEN [mermaid |-> sliceFenced(text, start, end), provider |-> providerOf(res)]
           ELSE [mermaid |-> fenceIt(text), provider |-> providerOf(res)]

\* { table: null, provider: 'offline' } (orchestrator.ts:440, 485, 489)
NullTable == [table |-> Nullish, provider |-> "offline"]

\* the early return of generateTable (orchestrator.ts:439-441)
tableSkipped(plan) == Falsy(plan.shouldGenerateTable) \/ Falsy(plan.tableType)

\* table.includes(c)
includes(text, c) == \E i \in 1..Len(text) : text[i] = c

\* a generateTable that returns whatever text it was given
generateTableUnvalidated(res, value) ==
  IF res.value = Undefined \/ value.text = <<>> THEN NullTable
  ELSE [table |-> trim(value.text), provider |-> providerOf(res)]

\* what generateTable returns once tryProviders has returned res
\* (orchestrator.ts:485-492)
generateTable(res, value) ==
  IF res.value = Undefined \/ value.text = <<>> THEN NullTable
  ELSE LET table == trim(value.text)
       IN  IF ~includes(table, "|") \/ ~includes(table, "\n") THEN NullTable
           ELSE [table |-> table, provider |-> providerOf(res)]

(* ---- the prompts ---- *)

\* '[REDACTED]' (src/unnamed/part_007:10)
REDACTION == "[REDACTED]"

\* Two tokens that the patterns of sanitizeForAI match (gsk_ followed by 20
\* characters or more); every other token of a text is matched by none.
Secrets == {"gsk_A", "gsk_B"}

\* sanitizeForAI(text).text: every match of a pattern is replaced
\* (src/unnamed/part_007:26-71)
sanitizeForAI(text) ==
  [i \in 1..Len(text) |-> IF text[i] \in Secrets THEN REDACTION ELSE text[i]]

\* safe(config, text) (orchestrator.ts:18-21)
safe(redactSecrets, text) ==
  IF redactSecrets = "false" THEN text ELSE sanitizeForAI(text)

\* The diff of a ChangeContext is given by the number of its characters and
\* by a sample of its content; a preview of it by the number of characters of
\* the diff it keeps, by whether '\n... (truncated)' follows them, and by the
\* content.
maxChars == 8000
DiagramDiffChars == 3000

\* truncateDiff(diff) (orchestrator.ts:12-16)
truncateDiff(diff) ==
  IF diff.chars <= maxChars THEN diff
  ELSE [diff EXCEPT !.chars = maxChars, !.marker = TRUE]

\* diffPreview.slice(0, n): the marker, if any, follows the kept characters
\* and is cut off as soon as n of them are there (orchestrator.ts:403)
sliceDiff(preview, n) ==
  IF preview.chars >= n THEN [preview EXCEPT !.chars = n, !.marker = FALSE]
  ELSE preview

\* safe(config, diffPreview)
safeDiff(redactSecrets, preview) ==
  [preview EXCEPT !.text = safe(redactSecrets, preview.text)]

\* no diff is embedded
NoDiff == [chars |-> 0, marker |-> FALSE, text |-> <<>>]

\* the change context and answers of a call that are not looked at
NoCtx ==
  [commits |-> <<"x">>, files |-> <<"x">>, qa |-> <<"x">>,
   diff |-> [chars |-> 100, marker |-> FALSE, text |-> <<"x">>]]

\* The user message of each use case, by the four texts it interpolates
\* (orchestrator.ts:65, 199-214, 319-337, 396-410, 467-476).
questionsPrompt(p) ==
  [name |-> p.name, embedsDiff |-> TRUE,
   commits |-> safe(p.redactSecrets, p.ctx.commits),
   files |-> safe(p.redactSecrets, p.ctx.files),
   diff |-> safeDiff(p.redactSecrets, truncateDiff(p.ctx.diff)),
   qa |-> <<>>]

planPrompt(p) ==
  [name |-> p.name, embedsDiff |-> TRUE,
   commits |-> safe(p.redactSecrets, p.ctx.commits),
   files |-> safe(p.redactSecrets, p.ctx.files),
   diff |-> safeDiff(p.redactSecrets, truncateDiff(p.ctx.diff)),
   qa |-> safe(p.redactSecrets, p.ctx.qa)]

contentPrompt(p) ==
  [name |-> p.name, embedsDiff |-> TRUE,
   commits |-> p.ctx.commits,
   files |-> safe(p.redactSecrets, p.ctx.files),
   diff |-> safeDiff(p.redactSecrets, truncateDiff(p.ctx.diff)),
   qa |-> safe(p.redactSecrets, p.ctx.qa)]

diagramPrompt(p) ==
  [name |-> p.name, embedsDiff |-> TRUE,
   commits |-> <<>>,
   files |-> p.ctx.files,
   diff |-> safeDiff(p.redactSecrets, sliceDiff(truncateDiff(p.ctx.diff), DiagramDiffChars)),
   qa |-> safe(p.redactSecrets, p.ctx.qa)]

tablePrompt(p) ==
  [name |-> p.name, embedsDiff |-> FALSE,
   commits |-> <<>>,
   files |-> p.ctx.files,
   diff |-> NoDiff,
   qa |-> safe(p.redactSecrets, p.ctx.qa)]

\* the messages a use case hands to tryProviders' run
PromptOf(p) ==
  CASE p.name = "generateQuestions" -> questionsPrompt(p)
    [] p.name = "planDocument" -> planPrompt(p)
    [] p.name = "generateMainContent" -> contentPrompt(p)
    [] p.name = "generateDiagram" -> diagramPrompt(p)
    [] p.name = "generateTable" -> tablePrompt(p)

(* ---- the use cases' state ---- *)

EmptyDiff == [plus |-> 0, minus |-> 0, other |-> 0]

\* no use case is running
NoParams ==
  [name |-> "none", language |-> Undefined, diff |-> EmptyDiff,
   hasDeveloperDiagrams |-> FALSE, hasDeveloperTables |-> FALSE, plan |-> NoPlan,
   redactSecrets |-> Undefined, ctx |-> NoCtx]

\* no chat call has resolved
NoReply == [json |-> "undefined"]

\* a chat call resolved with JSON that is no object (null)
FalsyReply == [json |-> "null"]

NoReturn == [provider |-> "none"]

\* no prompt has been built
NoMessages == [name |-> "none"]

\* no adapter has received a response text
NoResponse == <<>>

\* no command is generating a document
NoGen == [mode |-> "none"]

NoRecord == [id |-> "none", configured |-> FALSE, available |-> FALSE, reason |-> Undefined]

IdleProbe ==
  [state |-> "idle", outcome |-> "none", message |-> "", net |-> "none", record |-> NoRecord]

\* an adapter that never calls fetch observes nothing
NoFetch == [kind |-> "none", message |-> ""]

NoResult == [value |-> Undefined, provider |-> Undefined, error |-> "pending"]

RECURSIVE SeqsUpTo(_, _)
SeqsUpTo(S, n) ==
  IF n = 0 THEN {<<>>}
  ELSE LET shorter == SeqsUpTo(S, n - 1)
       IN shorter \cup {Append(s, x) : s \in shorter, x \in S}

\* the configurations enumerated: presence of each credential / URL / model
\* (src/src/types.ts:19-23)
Configs ==
  [groqApiKey : BOOLEAN, geminiApiKey : BOOLEAN, cerebrasApiKey : BOOLEAN,
   ollamaUrl : BOOLEAN, ollamaModel : BOOLEAN]

\* the values of generation.providerOrder enumerated (src/src/types.ts:31): a
\* hand-edited config file may leave it empty or repeat an identity
ProviderOrders == SeqsUpTo(Registered, MaxOrderLen)

Init ==
  /\ config \in Configs
  /\ preferred = Undefined
  /\ pc = "idle"
  /\ probes = [p \in Registered |-> IdleProbe]
  /\ availability = <<>>
  /\ userOrder = <<>>
  /\ order = <<>>
  /\ idx = 1
  /\ lastError = Undefined
  /\ attempts = <<>>
  /\ result = NoResult
  /\ netlog = {}
  /\ calls = 0
  /\ prevOrder = <<>>
  /\ params = NoParams
  /\ reply = NoReply
  /\ returned = NoReturn
  /\ messages = NoMessages
  /\ response = NoResponse
  /\ gen = NoGen

(* ---- actions ---- *)

\* tryProviders is called: it calls chooseProviderOrder, which calls
\* getAvailability, whose ALL_PROVIDERS.map(...) starts every probe before
\* Promise.all is awaited (fallback.ts:73, 32, 16-17)
StartCall ==
  /\ pc = "idle"
  /\ \E pref \in ProviderId \cup {Undefined} : preferred' = pref
  /\ probes' = [p \in Registered |-> [IdleProbe EXCEPT !.state = "pending"]]
  /\ pc' = "probing"
  /\ availability' = <<>>
  /\ userOrder' = <<>>
  /\ order' = <<>>
  /\ idx' = 1
  /\ lastError' = Undefined
  /\ attempts' = <<>>
  /\ result' = NoResult
  /\ netlog' = {[kind |-> "probe", to |-> p] : p \in {q \in Registered : DoesFetch(q, config)}}
  /\ calls' = calls + 1
  /\ UNCHANGED <<config, prevOrder>>

\* the promise isAvailable(config) of adapter p fulfils with its record
ProbeFulfils(p) ==
  /\ pc = "probing"
  /\ probes[p].state = "pending"
  /\ \E net \in (IF DoesFetch(p, config) THEN FetchOutcomes(p) ELSE {NoFetch}) :
       probes' = [probes EXCEPT ![p] =
                    [state |-> "settled", outcome |-> "fulfilled", message |-> "",
                     net |-> net.kind, record |-> isAvailable(p, config, net)]]
  /\ UNCHANGED <<config, preferred, pc, availability, userOrder, order, idx,
                 lastError, attempts, result,
                 netlog, calls, prevOrder, useCaseVars>>

\* the promise isAvailable(config) of adapter p rejects (the AIProvider
\* interface allows it); the .catch handler turns the rejection into a record
ProbeRejects(p) ==
  /\ pc = "probing"
  /\ probes[p].state = "pending"
  /\ \E m \in Messages :
       probes' = [probes EXCEPT ![p] =
                    [state |-> "settled", outcome |-> "rejected", message |-> m,
                     net |-> "none", record |-> CatchProbe(p, config, m)]]
  /\ UNCHANGED <<config, preferred, pc, availability, userOrder, order, idx,
                 lastError, attempts, result,
                 netlog, calls, prevOrder, useCaseVars>>

\* a chooseProviderOrder that keeps the list of the previous call
OrderChosenCached ==
  /\ pc = "probing"
  /\ \A p \in Registered : probes[p].state = "settled"
  /\ availability' = PromiseAll(probes)
  /\ \E providerOrder \in ProviderOrders :
       /\ userOrder' = providerOrder
       /\ order' = IF calls > 1 THEN prevOrder
                   ELSE chooseProviderOrder(providerOrder, preferred, PromiseAll(probes))
  /\ pc' = "ordered"
  /\ UNCHANGED <<config, preferred, probes, idx, lastError, attempts, result,
                 netlog, calls, prevOrder, useCaseVars>>

\* every probe has settled: Promise.all resolves, getAvailability returns and
\* chooseProviderOrder computes its list (fallback.ts:24, 32-65). The config is
\* never written, and its generation.providerOrder is read here for the first
\* time (fallback.ts:49): the configured list is drawn where it is read.
OrderChosen ==
  /\ pc = "probing"
  /\ \A p \in Registered : probes[p].state = "settled"
  /\ availability' = PromiseAll(probes)
  /\ \E providerOrder \in ProviderOrders :
       /\ userOrder' = providerOrder
       /\ order' = chooseProviderOrder(providerOrder, preferred, PromiseAll(probes))
  /\ pc' = "ordered"
  /\ UNCHANGED <<config, preferred, probes, idx, lastError, attempts, result,
                 netlog, calls, prevOrder, useCaseVars>>

\* chooseProviderOrder returns: its locals (the probe promises, availability,
\* userOrder) are gone, tryProviders keeps the list and enters its loop (fallback.ts:65, 73-76)
LoopStarts ==
  /\ pc = "ordered"
  /\ probes' = [p \in Registered |-> IdleProbe]
  /\ availability' = <<>>
  /\ userOrder' = <<>>
  /\ idx' = 1
  /\ lastError' = Undefined
  /\ pc' = "loop"
  /\ UNCHANGED <<config, preferred, order, attempts, result,
                 netlog, calls, prevOrder, useCaseVars>>

\* the loop body calls params.run(provider) and awaits it (fallback.ts:76-78)
InvokeRun ==
  /\ pc = "loop"
  /\ idx <= Len(order)
  /\ attempts' = Append(attempts, [id |-> order[idx], outcome |-> "pending", payload |-> Undefined])
  /\ netlog' = netlog \cup ChatRequest(order[idx], config)
  /\ pc' = "awaiting"
  /\ UNCHANGED <<config, preferred, probes, availability, userOrder, order, idx,
                 lastError, result,
                 calls, prevOrder, useCaseVars>>

\* the awaited operation resolves: return { value, provider } (fallback.ts:78-79)
RunResolves ==
  /\ pc = "awaiting"
  /\ attempts' = [attempts EXCEPT ![Len(attempts)] =
                    [id |-> order[idx], outcome |-> "resolved", payload |-> ValueOf(order[idx])]]
  /\ result' = ReturnValue(ValueOf(order[idx]), order[idx])
  /\ pc' = "done"
  /\ UNCHANGED <<config, preferred, probes, availability, userOrder, order, idx,
                 lastError,
                 netlog, calls, prevOrder>>

\* a catch that tries the same provider again
RunRejectsRetry ==
  /\ pc = "awaiting"
  /\ attempts' = [attempts EXCEPT ![Len(attempts)] =
                    [id |-> order[idx], outcome |-> "rejected", payload |-> ErrorOf(order[idx])]]
  /\ lastError' = CatchRun(lastError, ErrorOf(order[idx]))
  /\ pc' = "loop"
  /\ UNCHANGED <<config, preferred, probes, availability, userOrder, order, idx, result,
                 netlog, calls, prevOrder, useCaseVars>>

\* the awaited operation rejects: catch, remember the error, next provider
\* (fallback.ts:80-83)
RunRejected ==
  /\ pc = "awaiting"
  /\ attempts' = [attempts EXCEPT ![Len(attempts)] =
                    [id |-> order[idx], outcome |-> "rejected", payload |-> ErrorOf(order[idx])]]
  /\ lastError' = CatchRun(lastError, ErrorOf(order[idx]))
  /\ idx' = idx + 1
  /\ pc' = "loop"
  /\ UNCHANGED <<config, preferred, probes, availability, userOrder, order, result,
                 netlog, calls, prevOrder>>

RunRejects == RunRejected /\ UNCHANGED useCaseVars

\* a loop that starts over at the first adapter instead of returning
ExhaustedRestarts ==
  /\ pc = "loop"
  /\ idx > Len(order)
  /\ order # <<>>
  /\ idx' = 1
  /\ attempts' = <<>>
  /\ UNCHANGED <<config, preferred, pc, probes, availability, userOrder, order,
                 lastError, result, netlog, calls, prevOrder, useCaseVars>>

\* the loop is over without a success: return { error: lastError } (fallback.ts:86)
Exhausted ==
  /\ pc = "loop"
  /\ idx > Len(order)
  /\ result' = ReturnError(lastError)
  /\ pc' = "done"
  /\ UNCHANGED <<config, preferred, probes, availability, userOrder, order, idx,
                 lastError, attempts,
                 netlog, calls, prevOrder, useCaseVars>>

Next ==
  \/ StartCall /\ UNCHANGED useCaseVars
  \/ \E p \in Registered : ProbeFulfils(p)
  \/ \E p \in Registered : ProbeRejects(p)
  \/ OrderChosen
  \/ LoopStarts
  \/ InvokeRun
  \/ RunResolves /\ UNCHANGED useCaseVars
  \/ RunRejects
  \/ Exhausted

Spec == Init /\ [][Next]_vars

\* Every probe and every adapter request eventually resolves or rejects, and
\* the event loop runs every continuation of the call that is ready
\* (fallback.ts:17, 34-60, 75-86).
Fairness ==
  /\ \A p \in Registered : WF_vars(ProbeFulfils(p) \/ ProbeRejects(p))
  /\ WF_vars(OrderChosen)
  /\ WF_vars(LoopStarts)
  /\ WF_vars(InvokeRun)
  /\ WF_vars((RunResolves /\ UNCHANGED useCaseVars) \/ RunRejects)
  /\ WF_vars(Exhausted)

\* the calls followed to their end: without a preference, or with a
\* preference for the backend whose probe is a request
NextLive ==
  \/ StartCall /\ preferred' \in {Undefined, "ollama"} /\ UNCHANGED useCaseVars
  \/ \E p \in Registered : ProbeFulfils(p)
  \/ \E p \in Registered : ProbeRejects(p)
  \/ OrderChosen
  \/ LoopStarts
  \/ InvokeRun
  \/ RunResolves /\ UNCHANGED useCaseVars
  \/ RunRejects
  \/ Exhausted

SpecLive == Init /\ [][NextLive]_vars /\ Fairness

(* ---- the shipped adapters, over consecutive calls ---- *)

\* tryProviders has returned and nothing of the call is kept: no module-level
\* state exists in fallback.ts, every call starts from ALL_PROVIDERS and the
\* config it is given (fallback.ts:8-13, 68-73). The caller goes on and may
\* call again.
NextCall ==
  /\ pc = "done"
  /\ calls < MaxCalls
  /\ prevOrder' = order
  /\ preferred' = Undefined
  /\ order' = <<>>
  /\ idx' = 1
  /\ lastError' = Undefined
  /\ attempts' = <<>>
  /\ result' = NoResult
  /\ netlog' = {}
  /\ pc' = "idle"
  /\ UNCHANGED <<config, probes, availability, userOrder, calls, useCaseVars>>

\* The isAvailable of the four adapters has no path that throws: groq, gemini
\* and cerebras return a record (groq.ts:12-16), ollama wraps its fetch in
\* try/catch (ollama.ts:15-23). Their probes only ever fulfil.
NextShipped ==
  \/ StartCall /\ UNCHANGED useCaseVars
  \/ \E p \in Registered : ProbeFulfils(p)
  \/ OrderChosen
  \/ LoopStarts
  \/ InvokeRun
  \/ RunResolves /\ UNCHANGED useCaseVars
  \/ RunRejects
  \/ Exhausted
  \/ NextCall

SpecShipped == Init /\ [][NextShipped]_vars

(* ---- the use cases on top of tryProviders ---- *)

\* config.language (src/src/types.ts:13)
Languages == {Undefined, "en", "pt-BR", "es"}

\* the diffs enumerated: no changed line, one changed line less than the
\* limit, exactly the limit, and one more (with and without context lines)
Diffs ==
  {[plus |-> 0, minus |-> 0, other |-> 5],
   [plus |-> SmallDiffLimit - 2, minus |-> 1, other |-> 5],
   [plus |-> SmallDiffLimit - 1, minus |-> 1, other |-> 0],
   [plus |-> 40, minus |-> SmallDiffLimit - 39, other |-> 100]}

\* the entries of a questions array that are enumerated: a plain question, a
\* numbered one with whitespace around it, a number with nothing after it, a
\* blank string and null
QuestionEntries ==
  {<<"a">>, <<" ", "1", ".", " ", "b", " ">>, <<"1", ".">>, <<" ">>, Nullish}

\* the JSON objects whose questions field is no array: a string of one or of
\* two characters, and a number or plain object
NonArrayReplies ==
  {[json |-> "object", kind |-> "string", hasQuestions |-> TRUE, questions |-> <<"a">>],
   [json |-> "object", kind |-> "string", hasQuestions |-> TRUE, questions |-> <<"a", "b">>],
   [json |-> "object", kind |-> "other", hasQuestions |-> TRUE, questions |-> <<>>]}

\* the JSON objects a chat call of generateQuestions may parse: without a
\* questions field, or with an array of entries
QuestionReplies ==
  {FalsyReply, [json |-> "object", kind |-> "array", hasQuestions |-> FALSE, questions |-> <<>>]}
  \cup NonArrayReplies
  \cup {[json |-> "object", kind |-> "array", hasQuestions |-> TRUE, questions |-> qs] :
          qs \in SeqsUpTo(QuestionEntries, MaxQuestions)}

\* the raw plans a chat call of planDocument may parse: every field may be
\* absent, and the flags may be absent, null, true or false
RawPlans ==
  [intent : {Undefined, "feature"},
   intentRationale : {Undefined, "because"},
   impactedFiles : {Undefined, "[x]"},
   shouldGenerateDiagram : {Undefined, "null", "true", "false"},
   shouldGenerateTable : {Undefined, "null", "true", "false"},
   keyInsights : {Undefined, "[x]"},
   complexity : {Undefined, "null", "detailed"},
   skipGeneration : {Undefined, "null", "true", "false"},
   sections : {Undefined, "[x]"}]

PlanReplies == {FalsyReply} \cup {[json |-> "object", plan |-> raw] : raw \in RawPlans}

\* the answers followed through a whole call: one of each kind
SomeQuestionReplies ==
  NonArrayReplies \cup
  {FalsyReply,
   [json |-> "object", kind |-> "array", hasQuestions |-> FALSE, questions |-> <<>>],
   [json |-> "object", kind |-> "array", hasQuestions |-> TRUE, questions |-> << <<"a">> >>],
   [json |-> "object", kind |-> "array", hasQuestions |-> TRUE,
    questions |-> << <<"a">>, <<" ", "1", ".", " ", "b", " ">> >>],
   [json |-> "object", kind |-> "array", hasQuestions |-> TRUE,
    questions |-> << <<"a">>, <<"a">>, <<" ", "1", ".", " ", "b", " ">>, <<"a">>, <<"a">> >>]}

\* the texts a chat call of the three generators may resolve with
MaxTextLen == 4
ContentTexts ==
  {[json |-> "text", text |-> t] : t \in SeqsUpTo({" ", "x"}, MaxTextLen)}
DiagramTexts ==
  {[json |-> "text", text |-> t] :
     t \in SeqsUpTo({MermaidFence, Fence, "\n", "x"}, MaxTextLen)}
TableTexts ==
  {[json |-> "text", text |-> t] : t \in SeqsUpTo({"|", "\n", "x"}, MaxTextLen)}

\* the texts followed through a whole call: the shipped adapters throw on an
\* empty text (src/src/ai/providers/groq.ts chatText)
SomeContentTexts ==
  {[json |-> "text", text |-> t] : t \in {<<"x">>, <<" ", "x", "\n">>}}
SomeDiagramTexts ==
  {[json |-> "text", text |-> t] :
     t \in {<<"x">>, <<MermaidFence, "\n", "x", "\n", Fence>>, <<Fence, "x", Fence>>}}
SomeTableTexts ==
  {[json |-> "text", text |-> t] :
     t \in {<<"x">>, <<"|", "x", "|", "\n">>, <<"|", "x", "|", "\n", "|", "x", "|">>}}

\* the plans handed to the three generators
ContentPlans == {[NoPlan EXCEPT !.intent = i] : i \in {"feature", "5"}}
DiagramPlans ==
  {[NoPlan EXCEPT !.shouldGenerateDiagram = f, !.diagramType = t] :
     f \in {"true", "false"}, t \in {"flowchart", "null", "5"}}
TablePlans ==
  {[NoPlan EXCEPT !.shouldGenerateTable = f, !.tableType = t] :
     f \in {"true", "false"}, t \in {"comparison", "null"}}

\* the variables of a tryProviders call
runVars ==
  <<config, preferred, pc, probes, availability, userOrder, order, idx, lastError,
    attempts, result, netlog, calls, prevOrder>>

SomePlanReplies ==
  {FalsyReply,
   [json |-> "object",
    plan |-> [intent |-> "feature", intentRationale |-> "because", impactedFiles |-> "[x]",
              shouldGenerateDiagram |-> "true", shouldGenerateTable |-> "true",
              keyInsights |-> "[x]", complexity |-> "detailed", skipGeneration |-> "false",
              sections |-> Undefined]],
   [json |-> "object",
    plan |-> [intent |-> Undefined, intentRationale |-> Undefined, impactedFiles |-> Undefined,
              shouldGenerateDiagram |-> Undefined, shouldGenerateTable |-> Undefined,
              keyInsights |-> Undefined, complexity |-> Undefined, skipGeneration |-> Undefined,
              sections |-> Undefined]]}

\* generateQuestions is called: it reads the language and calls tryProviders
\* with preferred: preferredProvider || config.aiProvider || 'groq', which is
\* never undefined (orchestrator.ts:28, 69-73)
GenerateQuestionsCalled ==
  /\ params.name = "none"
  /\ \E language \in Languages :
       \E diff \in Diffs :
         params' = [params EXCEPT !.name = "generateQuestions",
                                  !.language = language, !.diff = diff]
  /\ messages' = PromptOf(params')
  /\ StartCall
  /\ preferred' # Undefined
  /\ UNCHANGED <<reply, returned, response, gen>>

\* planDocument is called (orchestrator.ts:120-227)
PlanDocumentCalled ==
  /\ params.name = "none"
  /\ \E hasDeveloperDiagrams \in BOOLEAN, hasDeveloperTables \in BOOLEAN :
       params' = [params EXCEPT !.name = "planDocument",
                                !.hasDeveloperDiagrams = hasDeveloperDiagrams,
                                !.hasDeveloperTables = hasDeveloperTables]
  /\ messages' = PromptOf(params')
  /\ StartCall
  /\ preferred' # Undefined
  /\ UNCHANGED <<reply, returned, response, gen>>

\* generateMainContent is called: building the prompt throws when plan.intent
\* is no string, otherwise tryProviders is called (orchestrator.ts:284-344)
GenerateMainContentCalled ==
  /\ params.name = "none"
  /\ \E plan \in ContentPlans :
       /\ params' = [params EXCEPT !.name = "generateMainContent", !.plan = plan]
       /\ IF contentPromptThrows(plan)
          THEN returned' = Thrown /\ UNCHANGED <<runVars, messages>>
          ELSE /\ messages' = PromptOf(params')
               /\ StartCall
               /\ preferred' # Undefined
               /\ UNCHANGED returned
  /\ UNCHANGED <<reply, response, gen>>

\* generateDiagram is called: it returns at once when the plan asks for no
\* diagram, otherwise it builds the prompt and calls tryProviders
\* (orchestrator.ts:365-417)
GenerateDiagramCalled ==
  /\ params.name = "none"
  /\ \E plan \in DiagramPlans :
       /\ params' = [params EXCEPT !.name = "generateDiagram", !.plan = plan]
       /\ IF diagramSkipped(plan)
          THEN returned' = NullDiagram /\ UNCHANGED <<runVars, messages>>
          ELSE IF diagramPromptThrows(plan)
          THEN returned' = Thrown /\ UNCHANGED <<runVars, messages>>
          ELSE /\ messages' = PromptOf(params')
               /\ StartCall
               /\ preferred' # Undefined
               /\ UNCHANGED returned
  /\ UNCHANGED <<reply, response, gen>>

\* generateTable is called: it returns at once when the plan asks for no
\* table, otherwise it calls tryProviders (orchestrator.ts:439-483)
GenerateTableCalled ==
  /\ params.name = "none"
  /\ \E plan \in TablePlans :
       /\ params' = [params EXCEPT !.name = "generateTable", !.plan = plan]
       /\ IF tableSkipped(plan)
          THEN returned' = NullTable /\ UNCHANGED <<runVars, messages>>
          ELSE /\ messages' = PromptOf(params')
               /\ StartCall
               /\ preferred' # Undefined
               /\ UNCHANGED returned
  /\ UNCHANGED <<reply, response, gen>>

\* the answers a chat call of the running use case may resolve with
SomeReplies ==
  CASE params.name = "generateQuestions" -> SomeQuestionReplies
    [] params.name = "planDocument" -> SomePlanReplies
    [] params.name = "generateMainContent" -> SomeContentTexts
    [] params.name = "generateDiagram" -> SomeDiagramTexts
    [] params.name = "generateTable" -> SomeTableTexts

\* run: provider.chatJson(...) or provider.chatText(...) resolves with the
\* JSON it parsed or with its text (orchestrator.ts:72, 226, 343, 416, 482)
ChatResolves ==
  /\ RunResolves
  /\ reply' \in SomeReplies
  /\ UNCHANGED <<params, returned, messages, response, gen>>

\* tryProviders has returned: generateQuestions validates the answer and
\* returns (orchestrator.ts:75-89)
GenerateQuestionsReturns ==
  /\ pc = "done"
  /\ params.name = "generateQuestions"
  /\ returned = NoReturn
  /\ returned' = generateQuestions(result, reply, params.language, params.diff)
  /\ UNCHANGED <<config, preferred, pc, probes, availability, userOrder, order, idx,
                 lastError, attempts, result, netlog, calls, prevOrder, params, reply,
                 messages, response, gen>>

\* tryProviders has returned: planDocument completes the plan and returns
\* (orchestrator.ts:229-251)
PlanDocumentReturns ==
  /\ pc = "done"
  /\ params.name = "planDocument"
  /\ returned = NoReturn
  /\ returned' = planDocument(result, reply, params.hasDeveloperDiagrams,
                              params.hasDeveloperTables)
  /\ UNCHANGED <<config, preferred, pc, probes, availability, userOrder, order, idx,
                 lastError, attempts, result, netlog, calls, prevOrder, params, reply,
                 messages, response, gen>>

\* tryProviders has returned: generateMainContent returns the text or the
\* offline notes (orchestrator.ts:346-355)
GenerateMainContentReturns ==
  /\ pc = "done"
  /\ params.name = "generateMainContent"
  /\ returned = NoReturn
  /\ returned' = generateMainContent(result, reply)
  /\ UNCHANGED <<runVars, params, reply, messages, response, gen>>

\* tryProviders has returned: generateDiagram returns the fenced diagram or
\* null (orchestrator.ts:419-429)
GenerateDiagramReturns ==
  /\ pc = "done"
  /\ params.name = "generateDiagram"
  /\ returned = NoReturn
  /\ returned' = generateDiagram(result, reply)
  /\ UNCHANGED <<runVars, params, reply, messages, response, gen>>

\* tryProviders has returned: generateTable returns the table or null
\* (orchestrator.ts:485-492)
GenerateTableReturns ==
  /\ pc = "done"
  /\ params.name = "generateTable"
  /\ returned = NoReturn
  /\ returned' = generateTable(result, reply)
  /\ UNCHANGED <<runVars, params, reply, messages, response, gen>>

NextUseCase ==
  \/ GenerateQuestionsCalled
  \/ PlanDocumentCalled
  \/ GenerateMainContentCalled
  \/ GenerateDiagramCalled
  \/ GenerateTableCalled
  \/ \E p \in Registered : ProbeFulfils(p)
  \/ OrderChosen
  \/ LoopStarts
  \/ InvokeRun
  \/ ChatResolves
  \/ RunRejects
  \/ Exhausted
  \/ GenerateQuestionsReturns
  \/ PlanDocumentReturns
  \/ GenerateMainContentReturns
  \/ GenerateDiagramReturns
  \/ GenerateTableReturns

SpecUseCase == Init /\ [][NextUseCase]_vars

(* ---- the use cases' first step, over every change context ---- *)

\* the texts of a change context: without a secret, or with one
Texts == {<<"x">>, <<"x", "gsk_A", "x">>}

\* the diffs of a change context: short, of the length the diagram prompt
\* keeps, one character more, of the length of the budget, one more
DiffSizes == {100, DiagramDiffChars, DiagramDiffChars + 1, maxChars, maxChars + 1}

Ctxs ==
  [commits : Texts, files : Texts, qa : Texts,
   diff : [chars : DiffSizes, marker : {FALSE}, text : Texts]]

\* config.redactSecrets (src/src/types.ts:41)
RedactSecrets == {Undefined, "true", "false"}

\* a use case is about to be called with some change context, by a
\* configuration with one backend
InitPrompt ==
  /\ config = [groqApiKey |-> TRUE, geminiApiKey |-> FALSE, cerebrasApiKey |-> FALSE,
               ollamaUrl |-> FALSE, ollamaModel |-> FALSE]
  /\ preferred = Undefined
  /\ pc = "idle"
  /\ probes = [p \in Registered |-> IdleProbe]
  /\ availability = <<>>
  /\ userOrder = <<>>
  /\ order = <<>>
  /\ idx = 1
  /\ lastError = Undefined
  /\ attempts = <<>>
  /\ result = NoResult
  /\ netlog = {}
  /\ calls = 0
  /\ prevOrder = <<>>
  /\ \E ctx \in Ctxs, redactSecrets \in RedactSecrets :
       params = [NoParams EXCEPT !.ctx = ctx, !.redactSecrets = redactSecrets]
  /\ reply = NoReply
  /\ returned = NoReturn
  /\ messages = NoMessages
  /\ response = NoResponse
  /\ gen = NoGen

NextPrompt ==
  \/ GenerateQuestionsCalled
  \/ PlanDocumentCalled
  \/ GenerateMainContentCalled
  \/ GenerateDiagramCalled
  \/ GenerateTableCalled

SpecPrompt == InitPrompt /\ [][NextPrompt]_vars

(* ---- chatJson of the adapters that receive free text ---- *)

\* A response text is a string whose tokens are "{", "}", "k" for text that
\* may stand inside a JSON object (a key with or without its value) and "x"
\* for any other text.
MaxResponseLen == 4
Responses == SeqsUpTo({"{", "}", "k", "x"}, MaxResponseLen)

\* the adapters whose chatJson reads the JSON out of the text
FreeTextAdapters == {"gemini", "cerebras", "ollama"}

\* text.indexOf('{') and text.lastIndexOf('}'), counted from 1, 0 for none
indexOfOpen(text) ==
  IF \E i \in 1..Len(text) : text[i] = "{"
  THEN CHOOSE i \in 1..Len(text) : text[i] = "{" /\ \A j \in 1..(i - 1) : text[j] # "{"
  ELSE 0

lastIndexOfClose(text) ==
  IF \E i \in 1..Len(text) : text[i] = "}"
  THEN CHOOSE i \in 1..Len(text) :
         text[i] = "}" /\ \A j \in (i + 1)..Len(text) : text[j] # "}"
  ELSE 0

\* how many objects are open after the first n tokens of the text
RECURSIVE Depth(_, _)
Depth(text, n) ==
  IF n = 0 THEN 0
  ELSE Depth(text, n - 1) + (CASE text[n] = "{" -> 1 [] text[n] = "}" -> -1 [] OTHER -> 0)

\* JSON.parse(span) returns: the span is one object, closed by its last
\* token and by no token before it, with nothing but keys, values and nested
\* objects (each after its key) inside
JSONparses(span) ==
  /\ Len(span) >= 2
  /\ span[1] = "{"
  /\ Depth(span, Len(span)) = 0
  /\ \A n \in 1..(Len(span) - 1) : Depth(span, n) > 0
  /\ \A n \in 1..Len(span) : span[n] # "x"
  /\ \A n \in 2..Len(span) : span[n] = "{" => span[n - 1] = "k"

\* chatJson(params) of GeminiProvider, CerebrasProvider and OllamaProvider,
\* once the text has arrived (src/unnamed/part_005:64-83,
\* src/src/ai/providers/cerebras.ts:55-69, ollama.ts:70-83)
chatJson(text) ==
  LET start == indexOfOpen(text)
      end == lastIndexOfClose(text)
  IN  IF start = 0 \/ end = 0 \/ end <= start
      THEN [json |-> "error", message |-> "returned non-JSON"]
      ELSE IF JSONparses(SubSeq(text, start, end))
           THEN [json |-> "object", value |-> SubSeq(text, start, end)]
           ELSE [json |-> "error", message |-> "SyntaxError"]

\* the text of a response has arrived at an adapter
InitExtract ==
  /\ config = [groqApiKey |-> FALSE, geminiApiKey |-> TRUE, cerebrasApiKey |-> TRUE,
               ollamaUrl |-> TRUE, ollamaModel |-> TRUE]
  /\ preferred \in FreeTextAdapters
  /\ order = <<preferred>>
  /\ attempts = <<[id |-> preferred, outcome |-> "pending", payload |-> Undefined]>>
  /\ pc = "awaiting"
  /\ probes = [p \in Registered |-> IdleProbe]
  /\ availability = <<>>
  /\ userOrder = <<>>
  /\ idx = 1
  /\ lastError = Undefined
  /\ result = NoResult
  /\ netlog = ChatRequest(preferred, config)
  /\ calls = 1
  /\ prevOrder = <<>>
  /\ params = [NoParams EXCEPT !.name = "planDocument"]
  /\ reply = NoReply
  /\ returned = NoReturn
  /\ messages = PromptOf(params)
  /\ response \in Responses
  /\ gen = NoGen

\* chatJson finds the JSON in the text and resolves, or throws
ChatJsonSettles ==
  /\ pc = "awaiting"
  /\ reply = NoReply
  /\ reply' = chatJson(response)
  /\ IF reply'.json = "object" THEN RunResolves ELSE RunRejected
  /\ UNCHANGED <<params, returned, messages, response, gen>>

NextExtract ==
  \/ ChatJsonSettles
  \/ Exhausted

SpecExtract == InitExtract /\ [][NextExtract]_vars

(* ---- the three generators of one document ---- *)

\* tasks.content, tasks.diagram, tasks.table (src/src/commands/pre-push.ts:275-279)
Tasks == <<"content", "diagram", "table">>
TaskNames == {"content", "diagram", "table"}

\* the adapters that each task's chooseProviderOrder returned: the first
\* MaxChain of the default chain
MaxChain == 2
Chain == SubSeq(<<"groq", "gemini", "cerebras", "ollama">>, 1, MaxChain)

\* the text a resolving request of a task carries
TextOf(task, tableText) ==
  CASE task = "content" -> [json |-> "text", text |-> <<"x", "\n">>]
    [] task = "diagram" -> [json |-> "text", text |-> <<"x">>]
    [] task = "table" -> [json |-> "text", text |-> tableText]

\* a field of a result, undefined when the result has no such field
Field(res, name) == IF name \in DOMAIN res THEN res[name] ELSE Nullish

\* the three results in the order of their completion
joinedByCompletion(tasks, finished) ==
  [i \in 1..3 |-> IF i <= Len(finished) THEN tasks[finished[i]].res ELSE Thrown]

\* [contentRes, diagramRes, tableRes]: Promise.all and the array literal both
\* give each result the position of its task (pre-push.ts:281-283)
joined(tasks, finished) == [i \in 1..3 |-> tasks[Tasks[i]].res]

\* a section of the document only when its part is truthy
sections(name, body) ==
  IF body \in {Nullish, <<>>} THEN <<>> ELSE <<[section |-> name, body |-> body]>>

\* an assembly that gives up the parts when there is no diagram
assembleOnlyWhenComplete(mainContentMarkdown, aiDiagram, aiTable) ==
  IF aiDiagram \in {Nullish, <<>>} THEN <<>>
  ELSE sections("## Architecture / Flow", aiDiagram)
         \o sections("main", trim(mainContentMarkdown))
         \o sections("## Summary Table", aiTable)

\* assembleMarkdownFromParts: the diagram, the main content and the table,
\* each if it is there (src/src/utils/document.ts:363-393)
assembleMarkdownFromParts(mainContentMarkdown, aiDiagram, aiTable) ==
  sections("## Architecture / Flow", aiDiagram)
    \o sections("main", trim(IF mainContentMarkdown = Nullish THEN <<>>
                              ELSE mainContentMarkdown))
    \o sections("## Summary Table", aiTable)

\* what the synchronous part of a task does: it returns at once, throws, or
\* sends the first request of its chain (orchestrator.ts:284-344, 365-417,
\* 439-483)
started(task, plan) ==
  CASE task = "content" ->
         IF contentPromptThrows(plan) THEN [state |-> "rejected", idx |-> 0, res |-> Thrown]
         ELSE [state |-> "awaiting", idx |-> 1, res |-> NoReturn]
    [] task = "diagram" ->
         IF diagramSkipped(plan) THEN [state |-> "returned", idx |-> 0, res |-> NullDiagram]
         ELSE IF diagramPromptThrows(plan)
         THEN [state |-> "rejected", idx |-> 0, res |-> Thrown]
         ELSE [state |-> "awaiting", idx |-> 1, res |-> NoReturn]
    [] task = "table" ->
         IF tableSkipped(plan) THEN [state |-> "returned", idx |-> 0, res |-> NullTable]
         ELSE [state |-> "awaiting", idx |-> 1, res |-> NoReturn]

\* what a task returns once its tryProviders has returned res
useCase(task, res, value) ==
  CASE task = "content" -> generateMainContent(res, value)
    [] task = "diagram" -> generateDiagram(res, value)
    [] task = "table" -> generateTable(res, value)

\* the pending request of a task settles: tryProviders returns at the first
\* resolution or after the last rejection, otherwise it asks the next adapter
\* (fallback.ts:75-86)
settled(task, t, outcome, tableText) ==
  IF outcome = "resolves"
  THEN [t EXCEPT !.state = "returned",
                 !.res = useCase(task, ReturnValue(ValueOf(Chain[t.idx]), Chain[t.idx]),
                                 TextOf(task, tableText))]
  ELSE IF t.idx = Len(Chain)
  THEN [t EXCEPT !.state = "returned",
                 !.res = useCase(task, ReturnError(ErrorOf(Chain[t.idx])), NoReply)]
  ELSE [t EXCEPT !.idx = t.idx + 1]

IdleTask == [state |-> "idle", idx |-> 0, res |-> NoReturn]

\* the plans, the table texts and the outcomes of the requests of one run
GenPlans ==
  {[NoPlan EXCEPT !.intent = i, !.shouldGenerateDiagram = d, !.diagramType = "flowchart",
                  !.shouldGenerateTable = "true", !.tableType = "comparison"] :
     i \in {"feature", "5"}, d \in {"true", "false"}}
TableTextsOfRun == {<<"|", "x", "|", "\n", "|", "x", "|">>, <<"x">>}
Outcomes == [TaskNames -> [1..MaxChain -> {"resolves", "rejects"}]]

\* prePushCommand has the plan and is about to generate the parts
\* (pre-push.ts:271-279)
InitGen ==
  /\ config = [groqApiKey |-> TRUE, geminiApiKey |-> TRUE, cerebrasApiKey |-> TRUE,
               ollamaUrl |-> TRUE, ollamaModel |-> TRUE]
  /\ preferred = Undefined
  /\ pc = "idle"
  /\ probes = [p \in Registered |-> IdleProbe]
  /\ availability = <<>>
  /\ userOrder = <<>>
  /\ order = <<>>
  /\ idx = 1
  /\ lastError = Undefined
  /\ attempts = <<>>
  /\ result = NoResult
  /\ netlog = {}
  /\ calls = 0
  /\ prevOrder = <<>>
  /\ params = NoParams
  /\ reply = NoReply
  /\ returned = NoReturn
  /\ messages = NoMessages
  /\ response = NoResponse
  /\ \E doParallel \in BOOLEAN, plan \in GenPlans, tableText \in TableTextsOfRun,
        outcomes \in Outcomes :
       gen = [mode |-> IF doParallel THEN "parallel" ELSE "sequential",
              plan |-> plan, tableText |-> tableText, outcomes |-> outcomes,
              tasks |-> [t \in TaskNames |-> IdleTask],
              requests |-> {}, finished |-> <<>>,
              document |-> [state |-> "none"]]

\* the requests a task has sent once it is in state t
requestsOf(task, t) == IF t.state = "awaiting" THEN {<<task, t.idx>>} ELSE {}

\* the tasks that have just returned or thrown, in the order of Tasks
RECURSIVE justFinished(_, _, _)
justFinished(before, after, i) ==
  IF i > 3 THEN <<>>
  ELSE (IF before[Tasks[i]].state \in {"idle", "awaiting"}
           /\ after[Tasks[i]].state \in {"returned", "rejected"}
        THEN <<Tasks[i]>> ELSE <<>>) \o justFinished(before, after, i + 1)

\* doParallel: Promise.all([tasks.content(), tasks.diagram(), tasks.table()])
\* calls the three tasks one after the other before anything is awaited
\* (pre-push.ts:281-282)
StartAll ==
  /\ gen.mode = "parallel"
  /\ \A t \in TaskNames : gen.tasks[t].state = "idle"
  /\ LET after == [t \in TaskNames |-> started(t, gen.plan)]
     IN  gen' = [gen EXCEPT !.tasks = after,
                            !.requests = UNION {requestsOf(t, after[t]) : t \in TaskNames},
                            !.finished = justFinished(gen.tasks, after, 1)]
  /\ UNCHANGED <<runVars, params, reply, returned, messages, response>>

\* not doParallel: [await tasks.content(), await tasks.diagram(), await
\* tasks.table()] calls each task when the one before it has returned
\* (pre-push.ts:283)
StartNext ==
  /\ gen.mode = "sequential"
  /\ gen.document.state = "none"
  /\ \E i \in 1..3 :
       /\ gen.tasks[Tasks[i]].state = "idle"
       /\ \A j \in 1..(i - 1) : gen.tasks[Tasks[j]].state = "returned"
       /\ LET after == [gen.tasks EXCEPT ![Tasks[i]] = started(Tasks[i], gen.plan)]
          IN  gen' = [gen EXCEPT !.tasks = after,
                                 !.requests = @ \cup requestsOf(Tasks[i], after[Tasks[i]]),
                                 !.finished = @ \o justFinished(gen.tasks, after, 1)]
  /\ UNCHANGED <<runVars, params, reply, returned, messages, response>>

\* the pending request of a task resolves or rejects, as the run has it
RequestSettles(task) ==
  /\ gen.tasks[task].state = "awaiting"
  /\ LET t == gen.tasks[task]
         after == [gen.tasks EXCEPT
                     ![task] = settled(task, t, gen.outcomes[task][t.idx], gen.tableText)]
     IN  gen' = [gen EXCEPT !.tasks = after,
                            !.requests = @ \cup requestsOf(task, after[task]),
                            !.finished = @ \o justFinished(gen.tasks, after, 1)]
  /\ UNCHANGED <<runVars, params, reply, returned, messages, response>>

\* the three results are there: generateFromGeneratedParts assembles the
\* document (pre-push.ts:285-295)
Assembles ==
  /\ gen.mode \in {"parallel", "sequential"}
  /\ gen.document.state = "none"
  /\ \A t \in TaskNames : gen.tasks[t].state = "returned"
  /\ LET res == joined(gen.tasks, gen.finished)
     IN  gen' = [gen EXCEPT !.document =
                   [state |-> "assembled",
                    contentRes |-> res[1], diagramRes |-> res[2], tableRes |-> res[3],
                    lines |-> assembleMarkdownFromParts(Field(res[1], "markdown"),
                                                        Field(res[2], "mermaid"),
                                                        Field(res[3], "table"))]]
  /\ UNCHANGED <<runVars, params, reply, returned, messages, response>>

\* a task threw: the await of Promise.all, or of that task, throws and no
\* document is written (pre-push.ts:281-283)
GenerationThrows ==
  /\ gen.mode \in {"parallel", "sequential"}
  /\ gen.document.state = "none"
  /\ \E t \in TaskNames : gen.tasks[t].state = "rejected"
  /\ gen' = [gen EXCEPT !.document = [state |-> "rejected"]]
  /\ UNCHANGED <<runVars, params, reply, returned, messages, response>>

NextGen ==
  \/ StartAll
  \/ StartNext
  \/ \E task \in TaskNames : RequestSettles(task)
  \/ Assembles
  \/ GenerationThrows

SpecGen == InitGen /\ [][NextGen]_vars

(* ---- the use cases' last step, over every answer ---- *)

\* what tryProviders left behind when it returned to the use case: nothing was
\* configured (no attempt), or groq alone is configured and preferred, and its
\* chat call resolved or rejected
Ends == {"none configured", "resolved", "rejected"}

\* the params of a use case whose tryProviders call has returned
ReturnedParams ==
  {[NoParams EXCEPT !.name = "generateQuestions", !.language = language, !.diff = diff] :
     language \in Languages, diff \in Diffs}
  \cup {[NoParams EXCEPT !.name = "planDocument",
                         !.hasDeveloperDiagrams = d, !.hasDeveloperTables = t] :
          d \in BOOLEAN, t \in BOOLEAN}
  \cup {[NoParams EXCEPT !.name = "generateMainContent",
                         !.plan = [NoPlan EXCEPT !.intent = "feature"]],
        [NoParams EXCEPT !.name = "generateDiagram",
                         !.plan = [NoPlan EXCEPT !.shouldGenerateDiagram = "true",
                                                 !.diagramType = "flowchart"]],
        [NoParams EXCEPT !.name = "generateTable",
                         !.plan = [NoPlan EXCEPT !.shouldGenerateTable = "true",
                                                 !.tableType = "comparison"]]}

\* every answer the chat call of a use case may have resolved with
Replies(name) ==
  CASE name = "generateQuestions" -> QuestionReplies
    [] name = "planDocument" -> PlanReplies
    [] name = "generateMainContent" -> ContentTexts
    [] name = "generateDiagram" -> DiagramTexts
    [] name = "generateTable" -> TableTexts

InitReturned ==
  /\ \E end \in Ends :
       /\ config = [groqApiKey |-> end # "none configured", geminiApiKey |-> FALSE,
                    cerebrasApiKey |-> FALSE, ollamaUrl |-> FALSE, ollamaModel |-> FALSE]
       /\ order = IF end = "none configured" THEN <<>> ELSE <<"groq">>
       /\ idx = IF end = "rejected" THEN 2 ELSE 1
       /\ lastError = IF end = "rejected" THEN ErrorOf("groq") ELSE Undefined
       /\ attempts =
            CASE end = "none configured" -> <<>>
              [] end = "resolved" ->
                   <<[id |-> "groq", outcome |-> "resolved", payload |-> ValueOf("groq")]>>
              [] end = "rejected" ->
                   <<[id |-> "groq", outcome |-> "rejected", payload |-> ErrorOf("groq")]>>
       /\ result = IF end = "resolved" THEN ReturnValue(ValueOf("groq"), "groq")
                   ELSE ReturnError(IF end = "rejected" THEN ErrorOf("groq") ELSE Undefined)
       /\ netlog = ChatRequest("groq", [groqApiKey |-> end # "none configured"])
  /\ preferred = "groq"
  /\ pc = "done"
  /\ probes = [p \in Registered |-> IdleProbe]
  /\ availability = <<>>
  /\ userOrder = <<>>
  /\ calls = 1
  /\ prevOrder = <<>>
  /\ params \in ReturnedParams
  /\ reply \in (IF result.value = Undefined THEN {NoReply} ELSE Replies(params.name))
  /\ returned = NoReturn
  /\ messages = PromptOf(params)
  /\ response = NoResponse
  /\ gen = NoGen

NextReturn ==
  \/ GenerateQuestionsReturns
  \/ PlanDocumentReturns
  \/ GenerateMainContentReturns
  \/ GenerateDiagramReturns
  \/ GenerateTableReturns

SpecReturn == InitReturned /\ [][NextReturn]_vars

TypeOK ==
  /\ pc \in {"idle", "probing", "ordered", "loop", "awaiting", "done"}
  /\ preferred \in ProviderId \cup {Undefined}
  /\ idx \in 1..(Len(order) + 1)
  /\ calls \in 0..MaxCalls
  /\ params.name \in {"none", "generateQuestions", "planDocument", "generateMainContent",
                      "generateDiagram", "generateTable"}
  /\ \A r \in netlog : r.kind \in {"probe", "chat"} /\ r.to \in Registered

(* ---- helpers of the properties ---- *)

Range(s) == {s[i] : i \in DOMAIN s}

IsPrefix(s, t) == Len(s) <= Len(t) /\ s = SubSeq(t, 1, Len(s))

NoRepeat(s) == \A i, j \in DOMAIN s : i # j => s[i] # s[j]

\* position of the first occurrence of x in s (0 when absent)
IndexOf(s, x) ==
  IF x \in Range(s) THEN CHOOSE i \in DOMAIN s : s[i] = x /\ \A j \in 1..(i - 1) : s[j] # x
  ELSE 0

\* s without the later occurrences of an element
RECURSIVE FirstOccurrences(_)
FirstOccurrences(s) ==
  IF s = <<>> THEN <<>>
  ELSE <<Head(s)>> \o FirstOccurrences(SelectSeq(Tail(s), LAMBDA x : x # Head(s)))

\* chooseProviderOrder has computed the list it is about to return
Ordered == pc = "ordered"

\* the identities the probe of this call reported as reachable
Reachable == {availability[i].id : i \in {j \in DOMAIN availability : availability[j].available}}

AttemptIds == [i \in DOMAIN attempts |-> attempts[i].id]

InFlight == {i \in DOMAIN attempts : attempts[i].outcome = "pending"}

(* ---- properties ---- *)

\* C1: first success wins. An attempt that resolved is the last attempt of the
\* call: the call has returned that operation's value with that adapter's
\* identity, every attempt before it was rejected, and no adapter placed after
\* it in the order has been invoked.
FirstSuccessWins ==
  /\ \A k \in DOMAIN attempts :
       attempts[k].outcome = "resolved" =>
         /\ pc = "done"
         /\ k = Len(attempts)
         /\ attempts[k].id = order[k]
         /\ result.value = ValueOf(order[k])
         /\ result.provider = order[k]
         /\ \A j \in 1..(k - 1) : attempts[j].outcome = "rejected"
         /\ \A j \in (k + 1)..Len(order) : order[j] \notin Range(AttemptIds)
  /\ (pc = "done" /\ result.provider # Undefined) =>
       /\ attempts # <<>>
       /\ attempts[Len(attempts)].outcome = "resolved"

\* C1 witness: X failed, Y succeeded and was returned, Z was never invoked
FirstSuccessWinsWitness ==
  /\ pc = "done"
  /\ Len(attempts) = 2
  /\ Len(order) = 3
  /\ attempts[1].outcome = "rejected"
  /\ attempts[2].outcome = "resolved"
  /\ result.provider = order[2]

\* C2: sequential fallback. The adapters invoked so far are a prefix of the
\* order, at most one operation is in flight, an operation starts only after
\* the previous one was rejected, and no adapter is invoked twice.
SequentialFallback ==
  /\ IsPrefix(AttemptIds, order)
  /\ Cardinality(InFlight) <= 1
  /\ \A i \in DOMAIN attempts : i > 1 => attempts[i - 1].outcome = "rejected"
  /\ NoRepeat(AttemptIds)

\* C2 witness: a third operation is in flight after two rejections
SequentialFallbackWitness ==
  /\ pc = "awaiting"
  /\ Len(attempts) = 3
  /\ InFlight = {3}

\* C3: total failure. A call that returns without a provider returns no value
\* either; every adapter of the order was attempted once and rejected, and the
\* error returned is the one the last adapter rejected with (undefined when the
\* order was empty). A rejection never ends the call without a result.
TotalFailure ==
  /\ (pc = "done" /\ result.provider = Undefined) =>
       /\ result.value = Undefined
       /\ AttemptIds = order
       /\ \A i \in DOMAIN attempts : attempts[i].outcome = "rejected"
       /\ result.error = IF order = <<>> THEN Undefined ELSE ErrorOf(order[Len(order)])
  /\ (pc = "done") => result # NoResult
  /\ (\E i \in DOMAIN attempts : attempts[i].outcome = "rejected") =>
       pc \in {"loop", "awaiting", "done"}
  /\ (pc = "loop" /\ idx > Len(order)) => ENABLED Exhausted

\* C3 witness: two adapters were attempted, both rejected, the call returned
TotalFailureWitness ==
  /\ pc = "done"
  /\ Len(order) = 2
  /\ result.provider = Undefined
  /\ result.error = ErrorOf(order[2])
  /\ attempts[1].payload # attempts[2].payload

\* C4: default chain. Without a user-defined order the computed order is the
\* preferred provider if reachable, then ollama if reachable and not already
\* listed, then every other reachable backend in the order groq, gemini,
\* cerebras, ollama; unreachable backends are left out.
ExpectedDefaultChain ==
  LET first == IF preferred \in Reachable THEN <<preferred>> ELSE <<>>
      local == IF "ollama" \in Reachable /\ preferred # "ollama" THEN <<"ollama">> ELSE <<>>
      others == SelectSeq(ALL_PROVIDERS,
                          LAMBDA p : p \in Reachable /\ p # preferred /\ p # "ollama")
  IN first \o local \o others

DefaultChain ==
  (Ordered /\ userOrder = <<>>) => order = ExpectedDefaultChain

\* C4 witness: groq reachable, gemini not, cerebras preferred and reachable,
\* ollama reachable
DefaultChainWitness ==
  /\ Ordered
  /\ userOrder = <<>>
  /\ preferred = "cerebras"
  /\ Reachable = {"groq", "cerebras", "ollama"}
  /\ order = <<"cerebras", "ollama", "groq">>

\* C5: user-defined order. With a non-empty providerOrder the computed order
\* is the preferred provider if given and reachable, then the reachable
\* entries of providerOrder in their configured sequence, skipping what is
\* already listed; nothing else is included.
ExpectedUserOrder ==
  LET first == IF preferred \in Reachable THEN <<preferred>> ELSE <<>>
      listed == SelectSeq(userOrder, LAMBDA p : p \in Reachable /\ p # preferred)
  IN first \o FirstOccurrences(listed)

UserDefinedOrder ==
  (Ordered /\ userOrder # <<>>) =>
    /\ order = ExpectedUserOrder
    /\ \A p \in Range(order) : p = preferred \/ p \in Range(userOrder)

\* C5 witness: the preferred provider leads, two configured entries follow in
\* their sequence, and a reachable backend that is not named is left out
UserDefinedOrderWitness ==
  /\ Ordered
  /\ Len(userOrder) = 2
  /\ preferred \in Reachable
  /\ order = <<preferred>> \o userOrder
  /\ Reachable \ Range(order) # {}

\* the first reachable entry of the user-defined order
FirstReachableEntry ==
  userOrder[CHOOSE i \in DOMAIN userOrder :
              /\ userOrder[i] \in Reachable
              /\ \A j \in 1..(i - 1) : userOrder[j] \notin Reachable]

PolicyCase ==
  /\ Ordered
  /\ userOrder # <<>>
  /\ Range(userOrder) \cap Reachable # {}
  /\ preferred \in Reachable
  /\ FirstReachableEntry # preferred

\* C6 as stated: the user-defined order outranks the caller's preference, so
\* its first reachable entry U is attempted before a reachable preferred P
UserOrderOutranksPreference ==
  PolicyCase => IndexOf(order, FirstReachableEntry) < IndexOf(order, preferred)

\* C6 amended: the caller's preference outranks the user-defined order, which
\* outranks local compute, which outranks the other reachable backends. A
\* reachable preferred provider is always first; with a user-defined order the
\* remaining entries follow that order (U right after P), wherever ollama
\* stands in it; without one, ollama comes before every backend but the
\* preferred one.
PreferenceOutranksUserOrder ==
  /\ (Ordered /\ preferred \in Reachable) => order[1] = preferred
  /\ PolicyCase =>
       /\ IndexOf(order, preferred) = 1
       /\ IndexOf(order, FirstReachableEntry) = 2
  /\ (Ordered /\ userOrder # <<>>) =>
       \A i, j \in DOMAIN order :
         (i < j /\ order[i] # preferred) =>
           /\ order[j] # preferred
           /\ IndexOf(userOrder, order[i]) < IndexOf(userOrder, order[j])
  /\ (Ordered /\ userOrder = <<>> /\ "ollama" \in Reachable) =>
       \A i \in 1..(IndexOf(order, "ollama") - 1) : order[i] = preferred

\* C6 witness: a reachable preferred provider and a different reachable first
\* entry of the user-defined order, both in the list
PreferenceOutranksUserOrderWitness ==
  /\ PolicyCase
  /\ Len(order) >= 2
  /\ order[1] = preferred
  /\ order[2] = FirstReachableEntry
  /\ userOrder[1] = FirstReachableEntry

\* C7: deduplication. The computed order holds each identity at most once, so
\* no backend is attempted twice in a call.
NoDuplicates ==
  /\ NoRepeat(order)
  /\ NoRepeat(AttemptIds)

\* C7 witness: the user-defined order names the reachable preferred provider
\* again, twice, and the list holds it once
NoDuplicatesWitness ==
  /\ Ordered
  /\ Len(userOrder) = 2
  /\ userOrder[1] = userOrder[2]
  /\ userOrder[1] = preferred
  /\ preferred \in Reachable
  /\ order = <<preferred>>

\* C8: only reachable registered adapters are ordered. Every element of the
\* order is a registered adapter whose record of this call's probe says
\* available; 'offline' is never listed, and a preferred provider that is
\* not reachable is not listed.
OnlyReachable ==
  Ordered =>
    /\ \A i \in DOMAIN order :
         /\ order[i] \in Registered
         /\ order[i] # "offline"
         /\ \E k \in DOMAIN availability :
              availability[k].id = order[i] /\ availability[k].available
    /\ preferred \notin Reachable => preferred \notin Range(order)

\* C8 witness: the preferred adapter is configured but unreachable, and
\* another adapter is ordered in its place
OnlyReachableWitness ==
  /\ Ordered
  /\ preferred = "ollama"
  /\ isConfigured("ollama", config)
  /\ "ollama" \notin Reachable
  /\ order # <<>>

UnconfiguredNoNetwork ==
  \A p \in Registered :
    ~isConfigured(p, config) =>
      /\ [kind |-> "probe", to |-> p] \notin netlog
      /\ probes[p].state = "settled" =>
            /\ probes[p].outcome = "fulfilled"
            /\ probes[p].net = "none"
            /\ probes[p].record.configured = FALSE
            /\ probes[p].record.available = FALSE
            /\ probes[p].record.reason = MissingReason(p)
            /\ probes[p].record.reason # Undefined
      /\ Ordered =>
            \E i \in DOMAIN availability :
              availability[i] = [id |-> p, configured |-> FALSE, available |-> FALSE,
                                 reason |-> MissingReason(p)]

\* C11 witness: ollama has its URL but no model, so it is not configured; its
\* check has settled while a configured adapter's check is still pending
UnconfiguredNoNetworkWitness ==
  /\ pc = "probing"
  /\ config.ollamaUrl /\ ~config.ollamaModel
  /\ probes["ollama"].state = "settled"
  /\ probes["ollama"].record.reason = "Missing ollamaUrl/ollamaModel"
  /\ \E p \in Registered : isConfigured(p, config) /\ probes[p].state = "pending"

\* the adapters whose availability check has settled in this call
Settled == {p \in Registered : probes[p].state = "settled"}

\* C12 as stated: for every adapter, available = true is only reported after
\* a connectivity probe against that backend was made in this call and
\* succeeded.
AvailableOnlyAfterProbe ==
  \A p \in Settled :
    probes[p].record.available =>
      /\ [kind |-> "probe", to |-> p] \in netlog
      /\ probes[p].net = "ok"

\* C12 amended: only ollama probes. For ollama available = true is reported
\* only after its GET /api/tags of this call answered ok, and a configured
\* ollama whose request fails (non-ok status or an error) is reported with
\* available = false and the failure as reason. groq, gemini and cerebras send
\* no request: for them available is configured.
LiveProbeOnlyOllama ==
  \A p \in Settled :
    /\ p = "ollama" =>
         /\ probes[p].record.available <=>
              /\ isConfigured(p, config)
              /\ [kind |-> "probe", to |-> p] \in netlog
              /\ probes[p].net = "ok"
         /\ (isConfigured(p, config) /\ probes[p].net \in {"status", "throws"}) =>
              /\ probes[p].record.configured
              /\ ~probes[p].record.available
              /\ probes[p].record.reason \in {"Ollama not reachable (status)"} \cup Messages
    /\ p # "ollama" =>
         /\ probes[p].record.available = isConfigured(p, config)
         /\ probes[p].record.configured = isConfigured(p, config)
         /\ probes[p].net = "none"
         /\ [kind |-> "probe", to |-> p] \notin netlog

\* C12 witness: in one call groq is reported available without a request,
\* while configured ollama answered its request with a non-ok status
LiveProbeOnlyOllamaWitness ==
  /\ Ordered
  /\ "groq" \in Reachable
  /\ [kind |-> "probe", to |-> "groq"] \notin netlog
  /\ [kind |-> "probe", to |-> "ollama"] \in netlog
  /\ probes["ollama"].net = "status"
  /\ "ollama" \notin Reachable

\* what the backends answer in this call: the adapters whose check of this
\* call reported them available
LiveReachable == {p \in Settled : probes[p].record.available}

\* C13: no caching across calls. Every call probes every adapter again, and
\* the order of a call is computed from what its own probes found: a backend
\* that is no longer reachable is left out and one that is reachable again is
\* eligible, whatever the previous call's order was.
NoCachingAcrossCalls ==
  Ordered =>
    /\ Settled = Registered
    /\ \A p \in Registered : DoesFetch(p, config) => [kind |-> "probe", to |-> p] \in netlog
    /\ Reachable = LiveReachable
    /\ Range(order) \subseteq LiveReachable
    /\ preferred \in LiveReachable => preferred \in Range(order)
    /\ userOrder = <<>> => Range(order) = LiveReachable
    /\ userOrder # <<>> => Range(userOrder) \cap LiveReachable \subseteq Range(order)
    /\ "ollama" \in Range(order) => probes["ollama"].net = "ok"

\* C13 witness: ollama was in the previous call's order, its request fails in
\* the second call, and the second call's order goes on without it
NoCachingAcrossCallsWitness ==
  /\ Ordered
  /\ calls = 2
  /\ "ollama" \in Range(prevOrder)
  /\ probes["ollama"].net = "status"
  /\ "ollama" \notin Range(order)
  /\ "groq" \in Range(order)
  /\ "groq" \notin Range(prevOrder)

(* ---- helpers of the use-case properties ---- *)

QuestionsReturned ==
  params.name = "generateQuestions" /\ returned.provider \notin {"none", "throws"}

PlanReturned ==
  params.name = "planDocument" /\ returned.provider \notin {"none", "throws"}

\* the chat call of a provider resolved with a JSON object
ProviderAnswered == result.value # Undefined /\ reply.json = "object"

\* the chat call of a provider resolved with a JSON object whose questions
\* field, if any, is a list
ListAnswered == ProviderAnswered /\ reply.kind = "array"

\* an entry as the validation sees it: trimmed, then without its numbering
Clean(q) == replaceNumbering(trim(StringOf(q)))

\* the entries of the answer that are non-empty question strings
ValidEntries == SelectSeq(reply.questions, LAMBDA q : Clean(q) # <<>>)

FirstFour(qs) == SubSeq(qs, 1, IF Len(qs) < 4 THEN Len(qs) ELSE 4)

\* the diff has fewer than 80 lines starting with '+' or '-'
FewerThan80 == params.diff.plus + params.diff.minus < 80

\* the bank of the configured language (English when none is configured)
ConfiguredBank == bank(IF params.language = Undefined THEN "en" ELSE params.language)

\* every adapter's operation threw, or none was reachable
TotalFailureOfRun ==
  /\ pc = "done"
  /\ Len(attempts) = Len(order)
  /\ \A i \in DOMAIN attempts : attempts[i].outcome = "rejected"

\* C14: question count bound. Every result of generateQuestions, from a
\* provider answer or from the offline bank, for every language and diff
\* size, is a list of 2 to 4 questions, tagged with the backend whose answer
\* was used or with 'offline'.
QuestionCountBound ==
  QuestionsReturned =>
    /\ Len(returned.questions) >= 2
    /\ Len(returned.questions) <= 4
    /\ returned.provider \in Registered \cup {"offline"}
    /\ returned.provider # "offline" =>
         /\ ListAnswered
         /\ returned.provider = result.provider
         /\ returned.provider = attempts[Len(attempts)].id
    /\ returned.provider = "offline" =>
         \E n \in 2..4 : returned.questions = SubSeq(ConfiguredBank, 1, n)

\* C14 witness: an answer with more than four usable questions was cut to
\* four and tagged with the backend that gave it
QuestionCountBoundWitness ==
  /\ QuestionsReturned
  /\ ListAnswered
  /\ Len(ValidEntries) > 4
  /\ Len(returned.questions) = 4
  /\ returned.provider = "groq"

\* C15 as stated: after a total failure the offline bank of the configured
\* language is returned with provider 'offline', 2 questions for a diff with
\* fewer than 80 changed lines and 3 questions otherwise.
OfflineBankTwoOrThree ==
  (QuestionsReturned /\ TotalFailureOfRun) =>
    /\ returned.provider = "offline"
    /\ returned.questions = SubSeq(ConfiguredBank, 1, IF FewerThan80 THEN 2 ELSE 3)

\* C15 amended: after a total failure the offline bank of the configured
\* language is returned with provider 'offline', 3 questions for a diff with
\* fewer than 80 changed lines and 4 questions otherwise.
OfflineBankThreeOrFour ==
  (QuestionsReturned /\ TotalFailureOfRun) =>
    /\ returned.provider = "offline"
    /\ returned.questions = SubSeq(ConfiguredBank, 1, IF FewerThan80 THEN 3 ELSE 4)

\* C15 witness: two adapters were tried and both threw; the diff has 80
\* changed lines and the four Portuguese questions are returned
OfflineBankThreeOrFourWitness ==
  /\ QuestionsReturned
  /\ TotalFailureOfRun
  /\ Len(attempts) >= 2
  /\ params.language = "pt-BR"
  /\ params.diff.plus + params.diff.minus = 80
  /\ Len(returned.questions) = 4
  /\ returned.provider = "offline"

\* C16 as stated: question validation. A provider answer is used only if it
\* holds at least 2 question strings that are non-empty after trimming and
\* stripping the leading numbering; otherwise the offline bank is returned
\* with provider 'offline'. Every question string of a result is non-empty.
QuestionValidation ==
  QuestionsReturned =>
    /\ returned.provider # "offline" => (ListAnswered /\ Len(ValidEntries) >= 2)
    /\ \A i \in DOMAIN returned.questions : returned.questions[i] # <<>>

NonDuplication ==
  PlanReturned =>
    /\ params.hasDeveloperDiagrams => returned.plan.shouldGenerateDiagram = "false"
    /\ params.hasDeveloperTables => returned.plan.shouldGenerateTable = "false"

\* C18 witness: the provider's plan asks for a diagram and a table, the
\* developer supplied both, and the returned plan asks for neither
NonDuplicationWitness ==
  /\ PlanReturned
  /\ ProviderAnswered
  /\ reply.plan.shouldGenerateDiagram = "true"
  /\ reply.plan.shouldGenerateTable = "true"
  /\ params.hasDeveloperDiagrams /\ params.hasDeveloperTables
  /\ returned.plan.shouldGenerateDiagram = "false"
  /\ returned.plan.shouldGenerateTable = "false"
  /\ returned.provider = "groq"

NoneConfigured == \A p \in Registered : ~isConfigured(p, config)

\* C20: no provider configured. planDocument then returns the offline plan
\* (shouldGenerateDiagram = false, shouldGenerateTable = false, complexity
\* 'minimal', skipGeneration = false, intent 'unknown', impactedFiles empty)
\* with provider 'offline', and at no point of the call is a network request
\* made, neither a connectivity probe nor a chat request.
NoProviderConfigured ==
  (params.name = "planDocument" /\ NoneConfigured) =>
    /\ netlog = {}
    /\ attempts = <<>>
    /\ PlanReturned =>
         /\ returned.provider = "offline"
         /\ returned.plan.shouldGenerateDiagram = "false"
         /\ returned.plan.shouldGenerateTable = "false"
         /\ returned.plan.complexity = "minimal"
         /\ returned.plan.skipGeneration = "false"
         /\ returned.plan.intent = "unknown"
         /\ returned.plan.impactedFiles = "[]"

\* C20 witness: the ollama URL is set but its model is not, no key is
\* present, and planDocument has returned
NoProviderConfiguredWitness ==
  /\ PlanReturned
  /\ NoneConfigured
  /\ config.ollamaUrl
  /\ ~params.hasDeveloperDiagrams
  /\ order = <<>>
  /\ result = ReturnError(Undefined)
  /\ returned.provider = "offline"

(* ---- the generators and the shape of an answer ---- *)

\* C21: a use case never throws to its caller: whatever the providers do and
\* whatever shape a successful answer has, generateQuestions, planDocument,
\* generateMainContent, generateDiagram and generateTable return a result
\* and their promise never rejects.
UseCasesNeverThrow == returned # Thrown

\* the plan of the running generator asks for no diagram (no table): the flag
\* is false or the type is null
DiagramNotRequested ==
  /\ params.name = "generateDiagram"
  /\ params.plan.shouldGenerateDiagram = "false" \/ params.plan.diagramType = "null"
TableNotRequested ==
  /\ params.name = "generateTable"
  /\ params.plan.shouldGenerateTable = "false" \/ params.plan.tableType = "null"

\* no probe was started, no request was sent and tryProviders was not called
NoProviderCall ==
  /\ pc = "idle"
  /\ calls = 0
  /\ netlog = {}
  /\ attempts = <<>>
  /\ \A p \in Registered : probes[p] = IdleProbe

\* C24: generation that was not requested makes no provider call.
\* generateDiagram (generateTable) returns null with provider 'offline'
\* without any availability probe or chat request whenever the plan's flag is
\* false or its type is null, and it returns null with provider 'offline'
\* too when every provider failed.
NotRequestedNoCall ==
  /\ DiagramNotRequested => returned = NullDiagram /\ NoProviderCall
  /\ TableNotRequested => returned = NullTable /\ NoProviderCall
  /\ params.name = "generateDiagram" /\ TotalFailureOfRun /\ returned # NoReturn
       => returned = NullDiagram
  /\ params.name = "generateTable" /\ TotalFailureOfRun /\ returned # NoReturn
       => returned = NullTable

\* a diagram was asked for with a null type and nothing was called
NotRequestedNoCallWitness ==
  /\ params.name = "generateDiagram"
  /\ params.plan.shouldGenerateDiagram = "true"
  /\ params.plan.diagramType = "null"
  /\ returned = NullDiagram
  /\ NoProviderCall

\* every provider of a requested table failed and null was returned
NotRequestedFailedWitness ==
  /\ params.name = "generateTable"
  /\ ~TableNotRequested
  /\ TotalFailureOfRun
  /\ Len(attempts) >= 2
  /\ returned = NullTable

\* generateDiagram returned a diagram that is not null
DiagramReturned ==
  /\ params.name = "generateDiagram"
  /\ returned \notin {NoReturn, Thrown}
  /\ returned.mermaid # Nullish

\* the text holds a fence delimiter: three backticks, with or without a
\* language after them
HasFence(text) == \E i \in 1..Len(text) : text[i] \in {Fence, MermaidFence}

\* C25: a diagram result is always one fenced block. Every non-null diagram
\* starts with the mermaid fence and ends with a closing fence; output without
\* any fence delimiter is wrapped in a mermaid fence, and output that already
\* holds fence delimiters is returned without a second fence around it.
OneFencedBlock ==
  DiagramReturned =>
    LET text == trim(reply.text)
        mermaid == returned.mermaid
    IN  /\ Head(mermaid) = MermaidFence
        /\ mermaid[Len(mermaid)] = Fence
        /\ ~HasFence(text) => mermaid = <<MermaidFence, "\n">> \o text \o <<"\n", Fence>>
        /\ HasFence(text) => mermaid # <<MermaidFence, "\n">> \o text \o <<"\n", Fence>>

\* an adapter's operation returned without throwing, and what it returned
\* fails the validation of the running use case: fewer than 2 questions, a
\* null plan, a table without '|' or without a newline
ValidationFailed ==
  /\ pc = "done"
  /\ result.value # Undefined
  /\ \/ /\ params.name = "generateQuestions"
        /\ \/ reply = FalsyReply
           \/ reply.kind = "array" /\ Len(reply.questions) < 2
     \/ /\ params.name = "planDocument"
        /\ reply = FalsyReply
     \/ /\ params.name = "generateTable"
        /\ \/ \A i \in 1..Len(trim(reply.text)) : trim(reply.text)[i] # "|"
           \/ \A i \in 1..Len(trim(reply.text)) : trim(reply.text)[i] # "\n"

\* the answering adapter is the last one that was consulted: every attempt
\* before it was rejected, and every chat request went to an attempted adapter
AnswerEndedTheLoop ==
  /\ attempts # <<>>
  /\ attempts[Len(attempts)].outcome = "resolved"
  /\ attempts[Len(attempts)].id = result.provider
  /\ \A i \in 1..(Len(attempts) - 1) : attempts[i].outcome = "rejected"
  /\ \A r \in netlog : r.kind = "chat" => \E i \in DOMAIN attempts : attempts[i].id = r.to

\* C28: a validation failure ends the chain. When an adapter's operation
\* returned without throwing but its result fails the use case's validation,
\* tryProviders has already returned that adapter as the success: no
\* remaining reachable adapter is consulted, and the use case returns its
\* offline result with provider 'offline'.
ValidationFailureEndsChain ==
  ValidationFailed =>
    /\ AnswerEndedTheLoop
    /\ returned # NoReturn =>
         /\ returned.provider = "offline"
         /\ params.name = "generateQuestions" =>
              returned.questions = offlineQuestions(params.diff, langOf(params.language))
         /\ params.name = "planDocument" =>
              returned.plan = offlinePlan(params.hasDeveloperDiagrams,
                                          params.hasDeveloperTables)
         /\ params.name = "generateTable" => returned = NullTable

\* a table without a newline was answered by the first of several reachable
\* adapters, and null was returned without asking the next one
ValidationFailureEndsChainWitness ==
  /\ ValidationFailed
  /\ params.name = "generateTable"
  /\ Len(attempts) = 1
  /\ Len(order) >= 2
  /\ returned = NullTable

(* ---- termination ---- *)

\* while an adapter's request is pending, the only step of the call is the
\* settling of that request: nothing else (a timeout, the next adapter) runs
OnlySettlingUnblocks ==
  pc = "awaiting" =>
    /\ attempts[Len(attempts)].outcome = "pending"
    /\ Len(attempts') = Len(attempts)
    /\ attempts'[Len(attempts)].outcome \in {"resolved", "rejected"}
    /\ pc' \in {"loop", "done"}

\* C22: a run always completes. If every probe and every adapter request
\* eventually resolves or rejects, every tryProviders call eventually
\* returns; and nothing bounds the wait: while a request is pending the call
\* takes no step but the settling of that request, so a request that never
\* settles blocks the call forever and no later adapter is attempted.
RunCompletes ==
  /\ (pc = "probing") ~> (pc = "done")
  /\ [][OnlySettlingUnblocks]_vars

\* a call returned after its first adapter had rejected and a later one had
\* been asked
RunCompletesWitness ==
  /\ pc = "done"
  /\ Len(attempts) >= 2
  /\ attempts[1].outcome = "rejected"

(* ---- what a prompt carries ---- *)

\* a use case has built its messages
PromptBuilt == messages # NoMessages

\* C26: diff truncation is never silent. In every prompt that embeds the
\* diff, an embedded diff shorter than the diff of the change context carries
\* the "(truncated)" marker, and a diff within the character budget is
\* embedded in full.
TruncationNeverSilent ==
  (PromptBuilt /\ messages.embedsDiff) =>
    /\ messages.diff.chars < params.ctx.diff.chars => messages.diff.marker
    /\ params.ctx.diff.chars <= maxChars => messages.diff.chars = params.ctx.diff.chars

\* the same call with another secret in the place of each secret
TwinText(text) ==
  [i \in 1..Len(text) |-> IF text[i] = "gsk_A" THEN "gsk_B" ELSE text[i]]
Twin(p) ==
  [p EXCEPT !.ctx = [commits |-> TwinText(p.ctx.commits),
                     files |-> TwinText(p.ctx.files),
                     qa |-> TwinText(p.ctx.qa),
                     diff |-> [p.ctx.diff EXCEPT !.text = TwinText(p.ctx.diff.text)]]]

\* the text holds a secret as it was written
Leaks(text) == \E i \in 1..Len(text) : text[i] \in Secrets

\* C30: secrets do not reach providers. Unless config.redactSecrets is false,
\* the commit messages, file paths, diff and developer answers inside a
\* prompt have all passed the redaction filter, so that the call with another
\* secret in the same place builds the same prompt.
SecretsRedacted ==
  (PromptBuilt /\ params.redactSecrets # "false") =>
    /\ ~Leaks(messages.commits)
    /\ ~Leaks(messages.files)
    /\ ~Leaks(messages.diff.text)
    /\ ~Leaks(messages.qa)
    /\ PromptOf(Twin(params)) = messages

(* ---- the JSON inside a text ---- *)

\* the tokens i..j of the text are a balanced brace span
Balanced(text, i, j) ==
  /\ text[i] = "{"
  /\ text[j] = "}"
  /\ Depth(text, j) = Depth(text, i - 1)
  /\ \A n \in i..(j - 1) : Depth(text, n) > Depth(text, i - 1)

\* the first opening brace of the text, 0 when it has none
FirstOpen(text) ==
  IF \A a \in 1..Len(text) : text[a] # "{" THEN 0
  ELSE CHOOSE a \in 1..Len(text) : text[a] = "{" /\ \A b \in 1..(a - 1) : text[b] # "{"

\* the first opening brace has its closing brace
HasBalanced(text) ==
  /\ FirstOpen(text) # 0
  /\ \E j \in 1..Len(text) : Balanced(text, FirstOpen(text), j)

\* the first balanced span of the text: from the first opening brace to the
\* brace that closes it
FirstBalanced(text) ==
  LET i == FirstOpen(text)
      j == CHOOSE b \in 1..Len(text) : Balanced(text, i, b)
  IN  SubSeq(text, i, j)

\* C27: JSON extraction from free text. chatJson of gemini, cerebras and
\* ollama parses the first balanced brace span of the response text and
\* returns it, whatever text stands before and after it (a suffix with braces
\* included); it fails when there is no balanced span or when the span does
\* not parse.
ExtractsFirstBalanced ==
  reply # NoReply =>
    IF HasBalanced(response) /\ JSONparses(FirstBalanced(response))
    THEN reply.json = "object" /\ reply.value = FirstBalanced(response)
    ELSE reply.json = "error"

(* ---- parallel and sequential generation ---- *)

\* the first request of a task's chain that resolves in this run, 0 for none
FirstResolving(task) ==
  IF \A i \in 1..MaxChain : gen.outcomes[task][i] = "rejects" THEN 0
  ELSE CHOOSE i \in 1..MaxChain :
         /\ gen.outcomes[task][i] = "resolves"
         /\ \A j \in 1..(i - 1) : gen.outcomes[task][j] = "rejects"

\* what each task owes its caller for the plan and the outcomes of this run,
\* whatever the mode and the order of completion
ExpectedContent ==
  IF FirstResolving("content") = 0
  THEN [markdown |-> OfflineMarkdown, provider |-> "offline"]
  ELSE [markdown |-> <<"x">>, provider |-> Chain[FirstResolving("content")]]

ExpectedDiagram ==
  IF gen.plan.shouldGenerateDiagram = "false" \/ FirstResolving("diagram") = 0
  THEN [mermaid |-> Nullish, provider |-> "offline"]
  ELSE [mermaid |-> <<MermaidFence, "\n", "x", "\n", Fence>>,
        provider |-> Chain[FirstResolving("diagram")]]

ExpectedTable ==
  IF FirstResolving("table") = 0 \/ gen.tableText = <<"x">>
  THEN [table |-> Nullish, provider |-> "offline"]
  ELSE [table |-> gen.tableText, provider |-> Chain[FirstResolving("table")]]

\* the document has a section with this body
Contains(lines, body) == \E i \in 1..Len(lines) : lines[i].body = body

\* the diagram task came back with nothing while the content and table
\* tasks came back with a provider's answer
OnlyDiagramFailed ==
  /\ gen.tasks["diagram"].state = "returned"
  /\ gen.tasks["diagram"].res.mermaid = Nullish
  /\ gen.tasks["content"].state = "returned"
  /\ gen.tasks["content"].res.provider # "offline"
  /\ gen.tasks["table"].state = "returned"
  /\ gen.tasks["table"].res.table # Nullish

\* C23: concurrent independence. In parallel mode the three sub-tasks are all
\* started before any is awaited; when the diagram sub-task fails on every
\* provider or returns null, the chains of content and table are neither
\* cancelled nor skipped (each sends its requests until one resolves), and
\* the assembled document holds the generated content and the generated
\* table.
ConcurrentIndependence ==
  gen.mode = "parallel" =>
    /\ (\E t \in TaskNames : gen.tasks[t].state # "idle")
         => \A t \in TaskNames : gen.tasks[t].state # "idle"
    /\ (gen.tasks["diagram"].state = "returned" /\ gen.plan.intent = "feature") =>
         \A t \in {"content", "table"} :
           /\ <<t, 1>> \in gen.requests
           /\ gen.tasks[t].state = "returned" =>
                \A i \in 1..MaxChain :
                  <<t, i>> \in gen.requests <=>
                    (FirstResolving(t) = 0 \/ i <= FirstResolving(t))
    /\ (gen.document.state = "assembled" /\ OnlyDiagramFailed) =>
         /\ Contains(gen.document.lines, gen.tasks["content"].res.markdown)
         /\ Contains(gen.document.lines, gen.tasks["table"].res.table)
         /\ gen.tasks["content"].res = ExpectedContent
         /\ gen.tasks["table"].res = ExpectedTable

\* in parallel mode the diagram failed on every provider before the content
\* and the table had their answers, and the document holds both
ConcurrentIndependenceWitness ==
  /\ gen.mode = "parallel"
  /\ gen.plan.shouldGenerateDiagram = "true"
  /\ gen.document.state = "assembled"
  /\ OnlyDiagramFailed
  /\ gen.finished[1] = "diagram"
  /\ Len(gen.document.lines) = 2
  /\ Contains(gen.document.lines, <<"x">>)
  /\ Contains(gen.document.lines, gen.tableText)

\* C29: parallel and sequential generation are equivalent in result. For a
\* fixed plan and fixed outcomes of the requests, both modes end with the same
\* (content, diagram, table) triple, each result at the position of its task
\* whatever the order of completion, and with the same document; a null
\* diagram or table is left out in both; a task that throws leaves both
\* without a document.
ModeEquivalence ==
  /\ gen.document.state = "assembled" =>
       /\ gen.plan.intent = "feature"
       /\ gen.document.contentRes = ExpectedContent
       /\ gen.document.diagramRes = ExpectedDiagram
       /\ gen.document.tableRes = ExpectedTable
       /\ gen.document.lines =
            (IF ExpectedDiagram.mermaid = Nullish THEN <<>>
             ELSE <<[section |-> "## Architecture / Flow", body |-> ExpectedDiagram.mermaid]>>)
            \o <<[section |-> "main", body |-> ExpectedContent.markdown]>>
            \o (IF ExpectedTable.table = Nullish THEN <<>>
                ELSE <<[section |-> "## Summary Table", body |-> ExpectedTable.table]>>)
  /\ gen.document.state = "rejected" => gen.plan.intent # "feature"

\* in parallel mode the table came back first and the content last, the
\* diagram is null, and each result stands at its task's position
ModeEquivalenceWitness ==
  /\ gen.mode = "parallel"
  /\ gen.document.state = "assembled"
  /\ gen.finished = <<"table", "diagram", "content">>
  /\ gen.document.diagramRes.mermaid = Nullish
  /\ gen.document.tableRes.table # Nullish
  /\ gen.document.contentRes.provider = Chain[MaxChain]

\* in sequential mode the same run ends with the same document
ModeEquivalenceSequentialWitness ==
  /\ gen.mode = "sequential"
  /\ gen.document.state = "assembled"
  /\ gen.finished = <<"content", "diagram", "table">>
  /\ gen.document.diagramRes.mermaid = Nullish
  /\ gen.document.tableRes.table # Nullish
  /\ gen.document.contentRes.provider = Chain[MaxChain]

====
